---------------------------- MODULE Spec2Model ----------------------------
(***************************************************************************)
(* Model of the BrainBin front end: the Route Guard (src/middleware.ts),   *)
(* the Session Lifecycle Manager (AuthContext, two behaviourally distinct  *)
(* revisions in the sources) and the login form.                           *)
(*                                                                         *)
(* Strings that the code parses, encodes or compares (paths, the `from`    *)
(* query parameter) are sequences of one-character strings.                *)
(***************************************************************************)
EXTENDS Integers, Sequences, FiniteSets, TLC

(***************************************************************************)
(* Bounds of the model.                                                    *)
(***************************************************************************)
MaxPathLen == 2      \* longest generated path / from value, in characters
MaxHops == 3         \* redirects followed for one request

(***************************************************************************)
(* Strings.                                                                *)
(***************************************************************************)
Root == <<"/">>
LoginPath == <<"/", "l", "o", "g", "i", "n">>

PathAlphabet == {"/", "a", "%"}

RECURSIVE SeqsUpTo(_, _)
SeqsUpTo(S, n) ==
  IF n = 0 THEN {<<>>}
  ELSE LET shorter == SeqsUpTo(S, n - 1)
       IN  shorter \cup {Append(s, c) : s \in {t \in shorter : Len(t) = n - 1}, c \in S}

\* Arbitrary short strings, as a user may type them into the address bar.
Strings == SeqsUpTo(PathAlphabet, MaxPathLen) \cup {LoginPath}

\* URL pathnames: they always start with "/".
Paths == {s \in Strings : Len(s) > 0 /\ s[1] = "/"}

Drop(s, n) == SubSeq(s, n + 1, Len(s))

(***************************************************************************)
(* URLSearchParams: application/x-www-form-urlencoded.                     *)
(***************************************************************************)
EncodeChar(c) ==
  CASE c = "/" -> <<"%", "2", "F">>
    [] c = "%" -> <<"%", "2", "5">>
    [] c = " " -> <<"+">>
    [] c = "+" -> <<"%", "2", "B">>
    [] OTHER   -> <<c>>

RECURSIVE FormEncode(_)
FormEncode(s) ==
  IF s = <<>> THEN <<>> ELSE EncodeChar(Head(s)) \o FormEncode(Tail(s))

HexDigits == {"0", "1", "2", "3", "4", "5", "6", "7", "8", "9",
              "A", "B", "C", "D", "E", "F", "a", "b", "c", "d", "e", "f"}

\* The byte a %XY escape stands for, for the escapes that occur in the model.
HexChar(h, l) ==
  CASE h = "2" /\ l \in {"F", "f"} -> "/"
    [] h = "2" /\ l = "5"          -> "%"
    [] h = "2" /\ l \in {"B", "b"} -> "+"
    [] h = "2" /\ l = "0"          -> " "
    [] OTHER                       -> "?"

RECURSIVE FormDecode(_)
FormDecode(s) ==
  IF s = <<>> THEN <<>>
  ELSE IF s[1] = "+" THEN <<" ">> \o FormDecode(Tail(s))
  ELSE IF s[1] = "%" /\ Len(s) >= 3 /\ s[2] \in HexDigits /\ s[3] \in HexDigits
       THEN <<HexChar(s[2], s[3])>> \o FormDecode(Drop(s, 3))
  ELSE <<s[1]>> \o FormDecode(Tail(s))

(***************************************************************************)
(* URLs. A query is the raw (encoded) value of its `from` parameter.       *)
(***************************************************************************)
NoQuery == [has |-> FALSE, raw |-> <<>>]
Query(raw) == [has |-> TRUE, raw |-> raw]

Url(o, p, q) == [origin |-> o, path |-> p, query |-> q]

\* searchParams.get('from'): null when absent, the decoded value otherwise.
NoFrom == [has |-> FALSE, val |-> <<>>]
GetFrom(q) == IF q.has THEN [has |-> TRUE, val |-> FormDecode(q.raw)] ELSE NoFrom

\* new URL(ref, base) for a base on the application's origin whose path is
\* in the root directory (/ or /login).
ResolveUrl(ref, base) ==
  IF ref = <<>> THEN base
  ELSE IF Len(ref) >= 2 /\ ref[1] = "/" /\ ref[2] = "/"
       THEN Url("ext", Root, NoQuery)            \* protocol-relative: another host
  ELSE IF ref[1] = "/" THEN Url(base.origin, ref, NoQuery)
  ELSE Url(base.origin, Root \o ref, NoQuery)    \* relative to the directory /

(***************************************************************************)
(* Route Guard.                                                            *)
(***************************************************************************)
Matcher == {Root, LoginPath}

NoCookie == [set |-> FALSE]

RespNext == [kind |-> "next"]
RespRedirect(u) == [kind |-> "redirect", url |-> u]

IsAuthenticatedMutant(accessToken, refreshToken) == accessToken.set \/ refreshToken.set
IsAuthenticated(accessToken, refreshToken) == accessToken.set /\ refreshToken.set

\* An authenticated request to /login.
LoginRedirectToItself(url) == RespRedirect(url)
LoginRedirectMutant(url) == RespRedirect(Url(url.origin, Root, NoQuery))
LoginRedirect(url) ==
  LET from == GetFrom(url.query)
  IN  IF from.has /\ from.val # <<>> /\ from.val # LoginPath
      THEN RespRedirect(ResolveUrl(from.val, url))
      ELSE RespRedirect(Url(url.origin, Root, NoQuery))

Middleware(accessToken, refreshToken, url) ==
  LET isAuthenticated == IsAuthenticated(accessToken, refreshToken)
  IN  IF ~isAuthenticated /\ url.path # LoginPath
      THEN RespRedirect(Url(url.origin, LoginPath, Query(FormEncode(url.path))))
      ELSE IF isAuthenticated /\ url.path = LoginPath
      THEN LoginRedirect(url)
      ELSE RespNext

\* The guard runs for the paths of config.matcher on the application's origin.
Guarded(url) == url.origin = "self" /\ url.path \in Matcher

(***************************************************************************)
(* Session Lifecycle Manager: state.                                       *)
(***************************************************************************)
MaxTokens == 2       \* token pairs the backend issues in one run
MaxAdvance == 2      \* times the clock is advanced
MaxLoads == 1        \* page loads after the first

TokenTTL == 3600            \* seconds a token pair lives (expires_in_hours)
FiveMinutes == 5 * 60 * 1000
\* One advance of the clock: it brings a fresh token pair to within five
\* minutes of its expiry, two advances take it past the expiry.
ClockStep == 56 * 60 * 1000

Revisions == {1, 2}  \* 1: part_003 and part_002:36-299; 2: part_002:301-576
Procs == {"init", "tick", "user", "form"}

VARIABLES
  rev,        \* the AuthContext revision that runs
  now,        \* Date.now(), in ms
  advances,   \* clock advances so far
  issued,     \* token pairs the backend has issued
  session,    \* Session Store (supabase.auth, persisted in localStorage)
  cookies,    \* document.cookie: sb-access-token, sb-refresh-token
  user,       \* AuthProvider state `user`
  loading,    \* AuthProvider state `loading`
  loc,        \* window.location of the current document
  href,       \* navigation issued by window.location.href = ..., not yet performed
  navTimer,   \* pending setTimeout(() => window.location.href = redirectTo, 100)
  loads,      \* page loads so far
  pc,         \* per async call chain: the await (or statement) it is at
  top,        \* per async call chain: the operation that was called
  viaRefresh, \* logout() was called by refreshToken()'s catch
  data,       \* per call chain: the backend's result held in a local
  ret,        \* per call chain: how the top operation ended
  failed,     \* per call chain: the external call that threw in logout()
  form        \* LoginPage state

authVars == <<rev, now, advances, issued, session, cookies, user, loading, loc,
              href, navTimer, loads, pc, top, viaRefresh, data, ret,
              failed, form>>

VARIABLES
  gReq,      \* the request the browser is about to send
  gCookies,  \* the two cookies the browser holds
  gPhase,    \* "request", "served" (NextResponse.next()), "left" (another origin)
  gHops,     \* redirects followed for the current request
  gLast,     \* the last request the guard answered, and its response
  gOrig,     \* the path of the last unauthenticated request sent to /login
  gTrip      \* "none", "sent" (redirected to /login), "back" (redirected back)

guardVars == <<gReq, gCookies, gPhase, gHops, gLast, gOrig, gTrip>>

VARIABLES
  processingTasks, \* FileUpload state: the tracked background tasks
  isUploading,     \* FileUpload state
  uploadError,     \* FileUpload state
  uploadSuccess,   \* FileUpload state
  upPc,            \* handleFileUpload: the await it is at
  upFile,          \* the file handleFileUpload was called with
  upVerdict,       \* how handleFileUpload's validation of upFile ended
  upRequests,      \* ingest requests sent (background and synchronous)
  upCreated,       \* task ids the backend has handed out
  pollInterval,    \* the setInterval of the polling effect and its activeTasks
  upRuns,          \* interval callbacks under way: the tasks each still has to poll
  upPolls,         \* per task: status requests sent
  upResp,          \* per task: the statuses its responses carried, in order
  upShown,         \* per task: the statuses its entry has shown, in order
  bkStatus,        \* per task: the backend's status of the job
  upAnswers,       \* per callback under way: the backend's answer on its way back
  upCalled,        \* onUploadSuccess calls made by the current handleFileUpload
  upNotified       \* per task: onUploadSuccess calls made for it by the polling

upVars == <<processingTasks, isUploading, uploadError, uploadSuccess, upPc, upFile,
            upVerdict, upRequests, upCreated, pollInterval, upRuns, upPolls, upResp,
            upShown, bkStatus, upAnswers, upCalled, upNotified>>

VARIABLES
  apOp,       \* the ApiClient operation under way: "query", "other" or "none"
  apPc,       \* where it is: awaiting fetch, awaiting response.json(), ended
  apTimer,    \* query(): the 45-second timeout is armed
  apAborted,  \* controller.abort() was called
  apCause,    \* what ended the request
  apRet       \* how the operation ended

apiVars == <<apOp, apPc, apTimer, apAborted, apCause, apRet>>

VARIABLES
  messages,    \* ChatInterface state: the transcript
  input,       \* ChatInterface state: the text field
  isLoading,   \* ChatInterface state
  chSubmits,   \* the handleSubmit calls so far: where each is, and its closure
  chRequests,  \* the requests the chat has sent, and the call that sent each
  queriesUsed, \* the backend's count of the user's queries
  chOnQuery    \* onQuery calls made

chatVars == <<messages, input, isLoading, chSubmits, chRequests,
              queriesUsed, chOnQuery>>

vars == <<authVars, guardVars, upVars, apiVars, chatVars>>

NoUser == [has |-> FALSE]
NoSession == [has |-> FALSE]
NoResult == [has |-> FALSE]
\* The locals of a call chain: the session it read, the backend's result.
Locals(read, result) == [session |-> read, result |-> result]
NoData == Locals(NoSession, NoResult)
NoNav == [has |-> FALSE, val |-> <<>>]
Nav(target) == [has |-> TRUE, val |-> target]
NoRet == [kind |-> "none"]

UserOf(email) == [has |-> TRUE, id |-> <<"id", email>>, email |-> email]

\* A token pair as issued by the backend: the access token is a JWT that
\* carries the user and the expiry (exp, in seconds).
TokenPair(g, email, exp) ==
  [has |-> TRUE,
   access_token |-> [k |-> "access", g |-> g, email |-> email, exp |-> exp],
   refresh_token |-> [k |-> "refresh", g |-> g, email |-> email],
   expires_at |-> exp * 1000]            \* AuthData.expires_at, as an instant in ms

Issue(email) == TokenPair(issued + 1, email, (now \div 1000) + TokenTTL)

\* The session supabase.auth.setSession builds from a token pair.
SessionOf(access, refresh) ==
  [has |-> TRUE, access_token |-> access, refresh_token |-> refresh,
   expires_at |-> access.exp, user |-> UserOf(access.email)]

\* Date.prototype.toUTCString has a resolution of one second.
ToUTCString(ms) == (ms \div 1000) * 1000

Cookie(value, expiresMs) == [set |-> TRUE, value |-> value, expires |-> ToUTCString(expiresMs)]

\* The browser neither keeps nor sends a cookie whose expiry has passed.
Sent(c) == IF c.set /\ c.expires > now THEN c ELSE NoCookie

ClearedCookies == [access |-> NoCookie, refresh |-> NoCookie]

\* onAuthStateChange callback: re-derives `user` from the notified session.
OnAuthStateChangeUser(s) == IF s.has THEN [has |-> TRUE, id |-> s.user.id, email |-> s.user.email] ELSE NoUser

EmptyForm == [email |-> "", password |-> "", confirmPassword |-> "",
              error |-> "", success |-> "", isLoading |-> FALSE, isLogin |-> TRUE]

SyncLabels == {"in_user", "in_cookieA", "in_cookieR", "in_nav"}

\* JavaScript runs a synchronous block to its end: nothing else is scheduled
\* while some call chain is between two awaits.
NoSync(p) == \A q \in Procs \ {p} : pc[q] \notin SyncLabels
Quiet == \A q \in Procs : pc[q] \notin SyncLabels

Idle(p) == pc[p] \in {"idle", "done"}
AllIdle == \A q \in Procs : Idle(q)

InitialQueries == {NoQuery, Query(<<>>), Query(FormEncode(<<"/", "a">>))}

\* A fresh browser opens the login view; AuthProvider has just been mounted
\* and its effect has called getSession().
AuthInit ==
  /\ rev \in Revisions
  /\ now = 0 /\ advances = 0 /\ issued = 0
  /\ session = NoSession
  /\ cookies = ClearedCookies
  /\ user = NoUser /\ loading = TRUE
  /\ loc \in {Url("self", LoginPath, q) : q \in InitialQueries}
  /\ href = NoNav /\ navTimer = NoNav /\ loads = 0
  /\ pc = [p \in Procs |-> IF p = "init" THEN "ck_get" ELSE "idle"]
  /\ top = [p \in Procs |-> IF p = "init" THEN "init" ELSE "none"]
  /\ viaRefresh = [p \in Procs |-> FALSE]
  /\ data = [p \in Procs |-> NoData]
  /\ ret = [p \in Procs |-> NoRet]
  /\ failed = [p \in Procs |-> "none"]
  /\ form = EmptyForm

(***************************************************************************)
(* Session Lifecycle Manager: control flow of one call chain.              *)
(***************************************************************************)
Value(v) == [kind |-> "value", val |-> v]
Resolved == [kind |-> "resolved"]
Rejected(m) == [kind |-> "rejected", message |-> m]

Set(f, p, v) == [f EXCEPT ![p] = v]

\* Where chain p goes when refreshToken() returns v: back into the startup
\* effect (through checkTokenExpiration, whose result the effect drops), or
\* to its caller.
AfterRefresh(p, v) ==
  IF top[p] = "init" THEN <<"gs_get", Value(v)>> ELSE <<"done", Value(v)>>

\* Where chain p goes when checkTokenExpiration() returns true.
AfterCheck(p) ==
  IF top[p] = "init" THEN <<"gs_get", Value(TRUE)>> ELSE <<"done", Value(TRUE)>>

\* Where chain p goes when logout() returns.
AfterLogout(p, nested) ==
  IF nested THEN AfterRefresh(p, FALSE) ELSE <<"done", Resolved>>

Goto(p, target) == /\ pc' = Set(pc, p, target[1])
                   /\ ret' = Set(ret, p, target[2])

\* A call starts on chain p; the results of the calls that have ended are no
\* longer held by anyone.
Forget(f, p, v, blank) == [q \in Procs |-> IF q = p THEN v ELSE IF pc[q] = "done" THEN blank ELSE f[q]]

Begin(p, op, label) ==
  /\ pc' = Forget(pc, p, label, "idle")
  /\ top' = Forget(top, p, op, "none")
  /\ viaRefresh' = Set(viaRefresh, p, FALSE)
  /\ data' = Forget(data, p, NoData, NoData)
  /\ ret' = Forget(ret, p, NoRet, NoRet)
  /\ failed' = Forget(failed, p, "none", "none")

\* The first await of logout(): revision 1 reads the session to notify the
\* backend, revision 2 signs out at once.
LogoutEntry == IF rev = 1 THEN "lo_get" ELSE "lo_out"

\* refreshToken()'s catch block: await logout().
CatchLogout(p) ==
  /\ pc' = Set(pc, p, LogoutEntry)
  /\ viaRefresh' = Set(viaRefresh, p, TRUE)
  /\ UNCHANGED ret

GetSessionOutcomes == {"ok", "error", "throw"}

\* const expiresAt = new Date(session.expires_at * 1000); expiresAt < fiveMinutesFromNow
AboutToExpire(s) == s.expires_at * 1000 < now + FiveMinutes

\* checkTokenExpiration(), resumed after await supabase.auth.getSession().
CheckTokenExpiration(p, o) ==
  /\ pc[p] = "ck_get" /\ NoSync(p)
  /\ CASE o = "throw" ->
            \* the effect's getSession() catches and ends in finally; the
            \* interval callback leaves the rejection unhandled
            /\ Goto(p, <<"done", Rejected("getSession")>>)
            /\ loading' = IF top[p] = "init" THEN FALSE ELSE loading
       [] o = "ok" /\ session.has /\ AboutToExpire(session) ->
            /\ pc' = Set(pc, p, "rf_get")
            /\ UNCHANGED <<ret, loading>>
       [] OTHER ->
            /\ Goto(p, AfterCheck(p))
            /\ UNCHANGED loading
  /\ UNCHANGED <<guardVars, upVars, apiVars, chatVars, rev, now, advances, issued, session, cookies, user, loc, href,
                 navTimer, loads, top, viaRefresh, data, failed, form>>

\* refreshToken(), resumed after await supabase.auth.getSession().
RefreshGetSession(p, o) ==
  /\ pc[p] = "rf_get" /\ NoSync(p)
  /\ CASE o = "throw" ->
            /\ CatchLogout(p)
            /\ UNCHANGED data
       [] o = "ok" /\ session.has ->
            \* session?.refresh_token is set: the request is sent
            /\ pc' = Set(pc, p, "rf_api")
            /\ data' = Set(data, p, Locals(session, NoResult))
            /\ UNCHANGED <<ret, viaRefresh>>
       [] OTHER ->
            /\ Goto(p, AfterRefresh(p, FALSE))
            /\ UNCHANGED <<data, viaRefresh>>
  /\ UNCHANGED <<guardVars, upVars, apiVars, chatVars, rev, now, advances, issued, session, cookies, user, loading, loc,
                 href, navTimer, loads, top, failed, form>>

RefreshApiOutcomes == {"ok", "error", "throw"}

\* refreshToken(), resumed after await apiClient.refreshToken(...).
RefreshApi(p, o) ==
  /\ pc[p] = "rf_api" /\ NoSync(p)
  /\ CASE o = "throw" ->
            /\ CatchLogout(p)
            /\ UNCHANGED <<data, issued>>
       [] o = "ok" ->
            /\ issued < MaxTokens
            /\ data' = Set(data, p, Locals(data[p].session, Issue(data[p].session.refresh_token.email)))
            /\ issued' = issued + 1
            /\ pc' = Set(pc, p, "rf_set")
            /\ UNCHANGED <<ret, viaRefresh>>
       [] OTHER ->
            \* status is not 'success', or no data: falls through to return false
            /\ Goto(p, AfterRefresh(p, FALSE))
            /\ UNCHANGED <<data, issued, viaRefresh>>
  /\ UNCHANGED <<guardVars, upVars, apiVars, chatVars, rev, now, advances, session, cookies, user, loading, loc,
                 href, navTimer, loads, top, failed, form>>

SetSessionOutcomes == {"ok", "error", "null", "throw"}

\* document.cookie = `sb-access-token=...; expires=...` and the same for
\* sb-refresh-token, from an AuthData result.
MirrorCookies(d) ==
  [access |-> Cookie(d.access_token, d.expires_at),
   refresh |-> Cookie(d.refresh_token, d.expires_at)]

\* Revision 2 rewrites the cookies after a refresh, revision 1 does not.
RefreshCookies(d) == IF rev = 2 THEN MirrorCookies(d) ELSE cookies

\* refreshToken(), resumed after await supabase.auth.setSession(...); the
\* result of setSession is not looked at.
RefreshSetSession(p, o) ==
  /\ pc[p] = "rf_set" /\ NoSync(p)
  /\ CASE o = "throw" ->
            /\ CatchLogout(p)
            /\ UNCHANGED <<session, user, loading, cookies>>
       [] o = "ok" ->
            /\ session' = SessionOf(data[p].result.access_token, data[p].result.refresh_token)
            /\ user' = OnAuthStateChangeUser(session')
            /\ loading' = FALSE
            /\ cookies' = RefreshCookies(data[p].result)
            /\ Goto(p, AfterRefresh(p, TRUE))
            /\ UNCHANGED viaRefresh
       [] OTHER ->
            /\ cookies' = RefreshCookies(data[p].result)
            /\ Goto(p, AfterRefresh(p, TRUE))
            /\ UNCHANGED <<session, user, loading, viaRefresh>>
  /\ UNCHANGED <<guardVars, upVars, apiVars, chatVars, rev, now, advances, issued, loc, href, navTimer, loads, top,
                 data, failed, form>>

(***************************************************************************)
(* logout().                                                               *)
(***************************************************************************)
\* Revision 1, resumed after await supabase.auth.getSession().
LogoutGetSession(p, o) ==
  /\ pc[p] = "lo_get" /\ NoSync(p)
  /\ CASE o = "throw" ->
            /\ Goto(p, AfterLogout(p, viaRefresh[p]))
            /\ failed' = Set(failed, p, "getSession")
       [] o = "ok" /\ session.has ->
            /\ pc' = Set(pc, p, "lo_api")
            /\ UNCHANGED <<ret, failed>>
       [] OTHER ->
            /\ pc' = Set(pc, p, "lo_out")
            /\ UNCHANGED <<ret, failed>>
  /\ viaRefresh' = IF pc'[p] \in {"lo_api", "lo_out"} THEN viaRefresh ELSE Set(viaRefresh, p, FALSE)
  /\ UNCHANGED <<guardVars, upVars, apiVars, chatVars, rev, now, advances, issued, session, cookies, user, loading, loc,
                 href, navTimer, loads, top, data, form>>

LogoutApiOutcomes == {"ok", "throw"}

\* Revision 1, resumed after await apiClient.logout(session.access_token):
\* a rejection lands in the catch block, which only logs.
LogoutApi(p, o) ==
  /\ pc[p] = "lo_api" /\ NoSync(p)
  /\ IF o = "throw"
     THEN /\ Goto(p, AfterLogout(p, viaRefresh[p]))
          /\ failed' = Set(failed, p, "api")
          /\ viaRefresh' = Set(viaRefresh, p, FALSE)
     ELSE /\ pc' = Set(pc, p, "lo_out")
          /\ UNCHANGED <<ret, failed, viaRefresh>>
  /\ UNCHANGED <<guardVars, upVars, apiVars, chatVars, rev, now, advances, issued, session, cookies, user, loading, loc,
                 href, navTimer, loads, top, data, form>>

SignOutOutcomes == {"ok", "error", "throw"}

\* The statements after await supabase.auth.signOut(): both cookies expired,
\* setUser(null), window.location.href = '/login'.
LogoutCleanup == /\ cookies' = ClearedCookies
                 /\ user' = NoUser
                 /\ href' = Nav(LoginPath)

\* The catch block of logout(): revision 1 logs, revision 2 also clears the
\* user and navigates.
LogoutCatch == IF rev = 2
               THEN /\ user' = NoUser
                    /\ href' = Nav(LoginPath)
                    /\ UNCHANGED cookies
               ELSE UNCHANGED <<cookies, user, href>>

\* Resumed after await supabase.auth.signOut(). A sign-out that succeeds
\* removes the session and notifies the subscribers (SIGNED_OUT); one that
\* returns {error} leaves the session, and the error is not looked at.
LogoutSignOut(p, o) ==
  /\ pc[p] = "lo_out" /\ NoSync(p)
  /\ CASE o = "throw" ->
            /\ LogoutCatch
            /\ failed' = Set(failed, p, "signOut")
            /\ UNCHANGED <<session, loading>>
       [] o = "ok" ->
            /\ session' = NoSession
            /\ loading' = FALSE
            /\ LogoutCleanup
            /\ UNCHANGED failed
       [] OTHER ->
            /\ LogoutCleanup
            /\ UNCHANGED <<session, loading, failed>>
  /\ Goto(p, AfterLogout(p, viaRefresh[p]))
  /\ viaRefresh' = Set(viaRefresh, p, FALSE)
  /\ UNCHANGED <<guardVars, upVars, apiVars, chatVars, rev, now, advances, issued, loc, navTimer, loads, top,
                 data, form>>

(***************************************************************************)
(* The startup effect's getSession(), after checkTokenExpiration().        *)
(***************************************************************************)
StartupGetSession(p, o) ==
  /\ pc[p] = "gs_get" /\ top[p] = "init" /\ NoSync(p)
  /\ CASE o = "throw" ->
            /\ Goto(p, <<"done", Rejected("getSession")>>)
            /\ UNCHANGED user
       [] o = "error" ->
            /\ Goto(p, <<"done", Resolved>>)
            /\ UNCHANGED user
       [] OTHER ->
            /\ user' = OnAuthStateChangeUser(session)
            /\ Goto(p, <<"done", Resolved>>)
  /\ loading' = FALSE
  /\ UNCHANGED <<guardVars, upVars, apiVars, chatVars, rev, now, advances, issued, session, cookies, loc, href,
                 navTimer, loads, top, viaRefresh, data, failed, form>>

(***************************************************************************)
(* LoginPage.handleSubmit, login() and register().                         *)
(***************************************************************************)
BackendMessages == {"", "Invalid credentials"}      \* result.message, possibly absent
ThrownMessages == {"Failed to fetch"}

\* result.message || fallback
OrElse(m, fallback) == IF m # "" THEN m ELSE fallback

\* The user edits the fields, or switches between sign-in and sign-up.
Fillings == {<<"", "pw", "">>, <<"u1", "", "">>, <<"u1", "pw", "">>,
             <<"u1", "pw", "pw">>, <<"u1", "pw", "zz">>}

EditForm(e, pw, cpw) ==
  /\ Idle("form") /\ Quiet /\ ~form.isLoading
  /\ loc.origin = "self" /\ loc.path = LoginPath
  /\ form' = [form EXCEPT !.email = e, !.password = pw, !.confirmPassword = cpw]
  /\ form' # form
  /\ UNCHANGED <<guardVars, upVars, apiVars, chatVars, rev, now, advances, issued, session, cookies, user, loading, loc,
                 href, navTimer, loads, pc, top, viaRefresh, data, ret, failed>>

ToggleMode ==
  /\ Idle("form") /\ Quiet /\ ~form.isLoading
  /\ loc.origin = "self" /\ loc.path = LoginPath
  /\ form' = [form EXCEPT !.isLogin = ~form.isLogin, !.error = "", !.success = ""]
  /\ UNCHANGED <<guardVars, upVars, apiVars, chatVars, rev, now, advances, issued, session, cookies, user, loading, loc,
                 href, navTimer, loads, pc, top, viaRefresh, data, ret, failed>>

\* handleSubmit up to its first await: validation, then login() or register()
\* up to their request.
HandleSubmit(solo) ==
  /\ Idle("form") /\ Quiet
  /\ solo => AllIdle
  /\ loc.origin = "self" /\ loc.path = LoginPath
  /\ LET cleared == [form EXCEPT !.error = "", !.success = ""]
     IN  IF form.email = "" \/ form.password = ""
         THEN /\ form' = [cleared EXCEPT !.error = "Please fill in all fields", !.isLoading = FALSE]
              /\ Begin("form", "invalid", "done")
         ELSE IF ~form.isLogin /\ form.password # form.confirmPassword
         THEN /\ form' = [cleared EXCEPT !.error = "Passwords do not match", !.isLoading = FALSE]
              /\ Begin("form", "invalid", "done")
         ELSE /\ form' = [cleared EXCEPT !.isLoading = TRUE]
              /\ Begin("form", IF form.isLogin THEN "login" ELSE "register",
                       IF form.isLogin THEN "lg_api" ELSE "rg_fetch")
  /\ UNCHANGED <<guardVars, upVars, apiVars, chatVars, rev, now, advances, issued, session, cookies, user, loading, loc,
                 href, navTimer, loads>>

\* login()/register() rethrow; handleSubmit's catch shows the message and its
\* finally clears isLoading.
SubmitRejectedMutant(m) ==
  /\ form' = [form EXCEPT !.error = m]
  /\ Goto("form", <<"done", Rejected(m)>>)
SubmitRejected(m) ==
  /\ form' = [form EXCEPT !.error = m, !.isLoading = FALSE]
  /\ Goto("form", <<"done", Rejected(m)>>)

\* login()/register() resolve with nothing; handleSubmit's finally runs.
SubmitResolved ==
  /\ form' = [form EXCEPT !.isLoading = FALSE]
  /\ Goto("form", <<"done", Resolved>>)

LoginApiOutcomes == {"ok", "error", "throw"}

\* login(), resumed after await apiClient.login(credentials).
LoginApi(o, m) ==
  /\ pc["form"] = "lg_api" /\ NoSync("form")
  /\ CASE o = "throw" ->
            /\ m \in ThrownMessages
            /\ SubmitRejected(m)
            /\ UNCHANGED <<data, issued>>
       [] o = "ok" ->
            /\ m = "" /\ issued < MaxTokens
            /\ data' = Set(data, "form", Locals(NoSession, Issue(form.email)))
            /\ issued' = issued + 1
            /\ pc' = Set(pc, "form", "in_set")
            /\ UNCHANGED <<ret, form>>
       [] OTHER ->
            /\ m \in BackendMessages
            /\ SubmitRejected(OrElse(m, "Login failed"))
            /\ UNCHANGED <<data, issued>>
  /\ UNCHANGED <<guardVars, upVars, apiVars, chatVars, rev, now, advances, session, cookies, user, loading, loc,
                 href, navTimer, loads, top, viaRefresh, failed>>

RegisterOutcomes == {"ok", "confirm", "error", "throw"}

\* What register() resolves with when the backend returned no access token.
ConfirmationMutant(m) ==
  [kind |-> "value",
   val |-> [requiresConfirmation |-> FALSE,
            message |-> OrElse(m, "Please check your email for confirmation")]]
Confirmation(m) ==
  [kind |-> "value",
   val |-> [requiresConfirmation |-> TRUE,
            message |-> OrElse(m, "Please check your email for confirmation")]]

\* register(), resumed after await fetch(...) and await response.json().
RegisterFetch(o, m) ==
  /\ pc["form"] = "rg_fetch" /\ NoSync("form")
  /\ CASE o = "throw" ->
            /\ m \in ThrownMessages
            /\ SubmitRejected(m)
            /\ UNCHANGED <<data, issued>>
       [] o = "ok" ->
            /\ m = "" /\ issued < MaxTokens
            /\ data' = Set(data, "form", Locals(NoSession, Issue(form.email)))
            /\ issued' = issued + 1
            /\ pc' = Set(pc, "form", "in_set")
            /\ UNCHANGED <<ret, form>>
       [] o = "confirm" ->
            \* handleSubmit: if (result && result.requiresConfirmation) it shows
            \* result.message and clears the fields; then its finally runs
            /\ m \in BackendMessages
            /\ LET result == Confirmation(m).val
               IN  form' = IF result.requiresConfirmation
                           THEN [form EXCEPT !.success = result.message,
                                             !.email = "", !.password = "",
                                             !.confirmPassword = "", !.isLoading = FALSE]
                           ELSE [form EXCEPT !.isLoading = FALSE]
            /\ Goto("form", <<"done", Confirmation(m)>>)
            /\ UNCHANGED <<data, issued>>
       [] OTHER ->
            /\ m \in BackendMessages
            /\ SubmitRejected(OrElse(m, "Registration failed"))
            /\ UNCHANGED <<data, issued>>
  /\ UNCHANGED <<guardVars, upVars, apiVars, chatVars, rev, now, advances, session, cookies, user, loading, loc,
                 href, navTimer, loads, top, viaRefresh, failed>>

\* login()/register(), resumed after await supabase.auth.setSession(...).
InstallSession(o, m) ==
  /\ pc["form"] = "in_set" /\ NoSync("form")
  /\ CASE o \in {"throw", "error"} ->
            /\ m \in ThrownMessages
            /\ SubmitRejected(m)
            /\ UNCHANGED <<session, user, loading>>
       [] o = "ok" ->
            /\ m = ""
            /\ session' = SessionOf(data["form"].result.access_token, data["form"].result.refresh_token)
            /\ user' = OnAuthStateChangeUser(session')
            /\ loading' = FALSE
            /\ pc' = Set(pc, "form", "in_user")
            /\ UNCHANGED <<ret, form>>
       [] OTHER ->
            \* no error and no session: the call resolves having done nothing
            /\ m = ""
            /\ SubmitResolved
            /\ UNCHANGED <<session, user, loading>>
  /\ UNCHANGED <<guardVars, upVars, apiVars, chatVars, rev, now, advances, issued, cookies, loc, href, navTimer, loads,
                 top, viaRefresh, data, failed>>

(***************************************************************************)
(* The statements of login()/register() after a session was installed,     *)
(* one step each, in program order.                                        *)
(***************************************************************************)
\* setUser({id: newSession.user.id, email: newSession.user.email})
InSetUser ==
  /\ pc["form"] = "in_user"
  /\ user' = OnAuthStateChangeUser(SessionOf(data["form"].result.access_token, data["form"].result.refresh_token))
  /\ pc' = Set(pc, "form", "in_cookieA")
  /\ UNCHANGED <<guardVars, upVars, apiVars, chatVars, rev, now, advances, issued, session, cookies, loading, loc, href,
                 navTimer, loads, top, viaRefresh, data, ret, failed, form>>

\* document.cookie = `sb-access-token=...`
InCookieAccess ==
  /\ pc["form"] = "in_cookieA"
  /\ cookies' = [cookies EXCEPT !.access = MirrorCookies(data["form"].result).access]
  /\ pc' = Set(pc, "form", "in_cookieR")
  /\ UNCHANGED <<guardVars, upVars, apiVars, chatVars, rev, now, advances, issued, session, user, loading, loc, href,
                 navTimer, loads, top, viaRefresh, data, ret, failed, form>>

\* document.cookie = `sb-refresh-token=...`
InCookieRefresh ==
  /\ pc["form"] = "in_cookieR"
  /\ cookies' = [cookies EXCEPT !.refresh = MirrorCookies(data["form"].result).refresh]
  /\ pc' = Set(pc, "form", "in_nav")
  /\ UNCHANGED <<guardVars, upVars, apiVars, chatVars, rev, now, advances, issued, session, user, loading, loc, href,
                 navTimer, loads, top, viaRefresh, data, ret, failed, form>>

\* new URLSearchParams(window.location.search).get('from') || '/'
RedirectToMutant(search) == IF GetFrom(search).has THEN GetFrom(search).val ELSE Root
RedirectTo(search) ==
  LET from == GetFrom(search)
  IN  IF from.has /\ from.val # <<>> THEN from.val ELSE Root

\* Revision 1 assigns window.location.href, revision 2 defers the assignment
\* by setTimeout(..., 100). Then the call resolves and handleSubmit's finally
\* runs.
InNavigate ==
  /\ pc["form"] = "in_nav"
  /\ IF rev = 1
     THEN /\ href' = Nav(RedirectTo(loc.query))
          /\ UNCHANGED navTimer
     ELSE /\ navTimer' = Nav(RedirectTo(loc.query))
          /\ UNCHANGED href
  /\ SubmitResolved
  /\ UNCHANGED <<guardVars, upVars, apiVars, chatVars, rev, now, advances, issued, session, cookies, user, loading, loc,
                 loads, top, viaRefresh, data, failed>>

\* The timer of revision 2 fires: window.location.href = redirectTo.
NavTimerFires ==
  /\ navTimer.has /\ Quiet
  /\ href' = navTimer
  /\ navTimer' = NoNav
  /\ UNCHANGED <<guardVars, upVars, apiVars, chatVars, rev, now, advances, issued, session, cookies, user, loading, loc,
                 loads, pc, top, viaRefresh, data, ret, failed, form>>

(***************************************************************************)
(* Callers.                                                                *)
(***************************************************************************)
\* HomePage.handleLogout: await logout().
CallLogout(solo) ==
  /\ Idle("user") /\ Quiet
  /\ solo => AllIdle
  /\ loc.origin = "self" /\ loc.path = Root
  /\ Begin("user", "logout", LogoutEntry)
  /\ UNCHANGED <<guardVars, upVars, apiVars, chatVars, rev, now, advances, issued, session, cookies, user, loading, loc,
                 href, navTimer, loads, form>>

\* A consumer of the context calls refreshToken().
CallRefreshToken(solo) ==
  /\ Idle("user") /\ Quiet
  /\ solo => AllIdle
  /\ loc.origin = "self"
  /\ Begin("user", "refresh", "rf_get")
  /\ UNCHANGED <<guardVars, upVars, apiVars, chatVars, rev, now, advances, issued, session, cookies, user, loading, loc,
                 href, navTimer, loads, form>>

\* setInterval(() => checkTokenExpiration(), 60 * 1000): revision 1 only.
IntervalTick(solo) ==
  /\ rev = 1
  /\ Idle("tick") /\ Quiet
  /\ solo => AllIdle
  /\ loc.origin = "self"
  /\ Begin("tick", "check", "ck_get")
  /\ UNCHANGED <<guardVars, upVars, apiVars, chatVars, rev, now, advances, issued, session, cookies, user, loading, loc,
                 href, navTimer, loads, form>>

(***************************************************************************)
(* The browser.                                                            *)
(***************************************************************************)
\* The document a request ends at, following the Route Guard's redirects.
RECURSIVE Land(_, _)
Land(url, hops) ==
  IF Guarded(url) /\ hops < MaxHops
  THEN LET resp == Middleware(Sent(cookies.access), Sent(cookies.refresh), url)
       IN  IF resp.kind = "redirect" THEN Land(resp.url, hops + 1) ELSE url
  ELSE url

\* The navigation that was issued is performed: the document is replaced,
\* AuthProvider is mounted anew and its effect starts; the Session Store
\* (localStorage) and the cookies stay.
PageLoad ==
  /\ href.has /\ Quiet
  /\ loads < MaxLoads
  /\ loads' = loads + 1
  /\ loc' = Land(ResolveUrl(href.val, loc), 0)
  /\ href' = NoNav /\ navTimer' = NoNav
  /\ user' = NoUser /\ loading' = TRUE
  /\ form' = EmptyForm
  /\ pc' = [p \in Procs |-> IF p = "init" /\ loc'.origin = "self" THEN "ck_get" ELSE "idle"]
  /\ top' = [p \in Procs |-> IF p = "init" THEN "init" ELSE "none"]
  /\ viaRefresh' = [p \in Procs |-> FALSE]
  /\ data' = [p \in Procs |-> NoData]
  /\ ret' = [p \in Procs |-> NoRet]
  /\ failed' = [p \in Procs |-> "none"]
  /\ UNCHANGED <<guardVars, upVars, apiVars, chatVars, rev, now, advances, issued, session, cookies>>

\* Time passes.
Advance ==
  /\ advances < MaxAdvance /\ Quiet
  /\ now' = now + ClockStep
  /\ advances' = advances + 1
  /\ UNCHANGED <<guardVars, upVars, apiVars, chatVars, rev, issued, session, cookies, user, loading, loc, href, navTimer,
                 loads, pc, top, viaRefresh, data, ret, failed, form>>

(***************************************************************************)
(* The Route Guard answering requests.                                     *)
(***************************************************************************)

CookieValues == {"", "tok"}
GuardCookie == {NoCookie} \cup {[set |-> TRUE, value |-> v] : v \in CookieValues}
\* A relative reference that resolves to /login.
RelativeLogin == <<"l", "o", "g", "i", "n">>

GuardQueries ==
  {NoQuery} \cup {Query(r) : r \in Strings \cup {RelativeLogin}}
           \cup {Query(FormEncode(r)) : r \in Strings}

NoExchange == [has |-> FALSE]

GuardInit ==
  /\ gReq \in {Url("self", p, q) : p \in Paths, q \in GuardQueries}
  /\ gCookies \in [access : GuardCookie, refresh : GuardCookie]
  /\ gPhase = "request"
  /\ gHops = 0
  /\ gLast = NoExchange
  /\ gOrig = Root
  /\ gTrip = "none"

\* The browser sends gReq; the guard runs if the matcher selects the path.
GuardServe ==
  /\ gPhase = "request"
  /\ IF ~Guarded(gReq)
     THEN /\ gPhase' = IF gReq.origin = "self" THEN "served" ELSE "left"
          /\ UNCHANGED <<gReq, gHops, gLast, gOrig, gTrip>>
     ELSE LET resp == Middleware(gCookies.access, gCookies.refresh, gReq)
              auth == IsAuthenticated(gCookies.access, gCookies.refresh)
          IN  /\ gLast' = [has |-> TRUE, req |-> gReq, access |-> gCookies.access,
                           refresh |-> gCookies.refresh, resp |-> resp]
              /\ IF resp.kind = "redirect"
                 THEN /\ gHops < MaxHops
                      /\ gReq' = resp.url
                      /\ gHops' = gHops + 1
                      /\ gOrig' = IF ~auth THEN gReq.path ELSE gOrig
                      /\ gTrip' = IF ~auth THEN "sent"
                                  ELSE IF gTrip = "sent" THEN "back" ELSE "none"
                      /\ UNCHANGED gPhase
                 ELSE /\ gPhase' = "served"
                      /\ UNCHANGED <<gReq, gHops, gOrig, gTrip>>
  /\ UNCHANGED <<gCookies, authVars, upVars, apiVars, chatVars>>

\* login() writes both cookies, logout() expires both, or one of them is lost.
GuardCookiesChange(a, r) ==
  /\ gPhase = "served"
  /\ gCookies' = [access |-> a, refresh |-> r]
  /\ gCookies' # gCookies
  /\ gTrip' = IF IsAuthenticated(a, r) THEN gTrip ELSE "none"
  /\ UNCHANGED <<gReq, gPhase, gHops, gLast, gOrig, authVars, upVars, apiVars, chatVars>>

\* The page that was served is requested again (a reload).
GuardReRequest ==
  /\ gPhase = "served"
  /\ gPhase' = "request"
  /\ gHops' = 0
  /\ UNCHANGED <<gReq, gCookies, gLast, gOrig, gTrip, authVars, upVars, apiVars, chatVars>>

GuardNext ==
  \/ GuardServe
  \/ \E a \in GuardCookie, r \in GuardCookie : GuardCookiesChange(a, r)
  \/ GuardReRequest

(***************************************************************************)
(* File upload (FileUpload.tsx): validation and the ingest calls.          *)
(***************************************************************************)
MaxTasks == 2     \* tasks the backend hands out
MaxRuns == 2      \* interval callbacks under way at once
MaxPolls == 4     \* status requests in all

MAX_FILE_SIZE == 3 * 1024 * 1024

allowedExtensions ==
  { <<".", "p", "d", "f">>, <<".", "d", "o", "c", "x">>, <<".", "d", "o", "c">>,
    <<".", "t", "x", "t">>, <<".", "c", "s", "v">>, <<".", "x", "l", "s", "x">>,
    <<".", "x", "l", "s">> }

\* String.prototype.toLowerCase, on the letters the file names use.
ToLowerCase(c) ==
  CASE c = "P" -> "p" [] c = "D" -> "d" [] c = "F" -> "f" [] OTHER -> c

\* Positions of the dots of a name.
Dots(name) == {i \in 1..Len(name) : name[i] = "."}

\* name.split('.').pop(): what follows the last dot, the whole name when it
\* has no dot.
LastSegment(name) ==
  IF Dots(name) = {} THEN name
  ELSE LET d == CHOOSE i \in Dots(name) : \A j \in Dots(name) : j <= i
       IN SubSeq(name, d + 1, Len(name))

\* '.' + file.name.split('.').pop()?.toLowerCase()
FileExtension(name) ==
  <<".">> \o [i \in 1..Len(LastSegment(name)) |-> ToLowerCase(LastSegment(name)[i])]

\* The two checks handleFileUpload makes before it sends anything, with a
\* variant that drops the size check.
ValidateNoSize(file) ==
  IF FileExtension(file.name) \notin allowedExtensions THEN "type" ELSE "ok"

Validate(file) ==
  IF file.size > MAX_FILE_SIZE THEN "size"
  ELSE IF FileExtension(file.name) \notin allowedExtensions THEN "type"
  ELSE "ok"

\* A message is the sequence of the pieces its template concatenates.
NoMessage == <<>>
Includes(m, piece) == \E i \in 1..Len(m) : m[i] = piece

Digit(d) == <<"0", "1", "2", "3", "4", "5", "6", "7", "8", "9">>[d + 1]

Decimal(n) ==
  IF n < 10 THEN <<Digit(n)>>
  ELSE IF n < 100 THEN <<Digit(n \div 10), Digit(n % 10)>>
  ELSE <<Digit(n \div 100), Digit((n \div 10) % 10), Digit(n % 10)>>

\* Number.prototype.toFixed(2) of size / 1024 / 1024, for sizes under 10 MB.
ToFixed2MB(size) ==
  LET h == (size * 100 + 512 * 1024) \div (1024 * 1024)
  IN <<Digit(h \div 100), ".", Digit((h \div 10) % 10), Digit(h % 10)>>

SizeError(file) ==
  <<"File size exceeds 3MB limit. Your file: ">> \o ToFixed2MB(file.size) \o <<"MB">>

TypeNotSupported == <<"File type not supported. Please upload: ",
                      ".pdf, .docx, .doc, .txt, .csv, .xlsx, .xls">>

FileNames ==
  { <<"a", ".", "p", "d", "f">>, <<"a", ".", "P", "D", "F">>, <<"a", ".", "e", "x", "e">>,
    <<"p", "d", "f">>, <<"a", ".", "b", ".", "t", "x", "t">>, <<"a", ".">> }
FileSizes == {1024, MAX_FILE_SIZE, MAX_FILE_SIZE + 1}
MimeTypes == {"application/pdf", "application/x-msdownload"}
Files == [name : FileNames, size : FileSizes, type : MimeTypes]
NoFile == [name |-> <<>>, size |-> 0, type |-> ""]

\* The one file the polling specification uploads.
GoodFile == [name |-> <<"a", ".", "p", "d", "f">>, size |-> 1024, type |-> "application/pdf"]

TaskIds == 1..MaxTasks
NoError == [has |-> FALSE, val |-> ""]
SomeError(e) == [has |-> TRUE, val |-> e]

Active(status) == status \in {"queued", "processing"}
ActiveTasks(tasks) == SelectSeq(tasks, LAMBDA t : Active(t.status))

\* No answer yet, or no job.
NoAnswer == [status |-> "none", error |-> NoError]

NoInterval == [armed |-> FALSE, activeTasks |-> <<>>]

\* The polling effect, which React runs again after every change of
\* processingTasks: the cleanup clears the interval, and a new one is set
\* over the tasks that are queued or processing, if there are any.
PollingEffect(tasks) ==
  IF ActiveTasks(tasks) = <<>> THEN NoInterval
  ELSE [armed |-> TRUE,
        activeTasks |-> [i \in 1..Len(ActiveTasks(tasks)) |->
                           [taskId |-> ActiveTasks(tasks)[i].taskId,
                            filename |-> ActiveTasks(tasks)[i].filename]]]

UploadAtRest ==
  /\ processingTasks = <<>>
  /\ isUploading = FALSE
  /\ uploadError = NoMessage
  /\ uploadSuccess = NoMessage
  /\ upPc = "idle"
  /\ upFile = NoFile
  /\ upVerdict = "none"
  /\ upRequests = 0
  /\ upCreated = 0
  /\ pollInterval = NoInterval
  /\ upRuns = <<>>
  /\ upPolls = [t \in TaskIds |-> 0]
  /\ upResp = [t \in TaskIds |-> <<>>]
  /\ upShown = [t \in TaskIds |-> <<>>]
  /\ bkStatus = [t \in TaskIds |-> NoAnswer]
  /\ upAnswers = <<>>
  /\ upCalled = 0
  /\ upNotified = [t \in TaskIds |-> 0]

pollVars == <<pollInterval, upRuns, upPolls, upResp, upShown, bkStatus, upAnswers, upNotified>>

\* handleFileUpload, up to its first await.
HandleFileUpload(file) ==
  /\ upPc = "idle" /\ ~isUploading          \* the input is disabled while uploading
  /\ user.has
  /\ upFile' = file
  /\ upVerdict' = Validate(file)
  /\ upCalled' = 0
  /\ CASE Validate(file) = "size" ->
            /\ uploadError' = SizeError(file)
            /\ upRequests' = 0
            /\ UNCHANGED <<isUploading, uploadSuccess, upPc>>
       [] Validate(file) = "type" ->
            /\ uploadError' = TypeNotSupported
            /\ upRequests' = 0
            /\ UNCHANGED <<isUploading, uploadSuccess, upPc>>
       [] OTHER ->
            /\ isUploading' = TRUE
            /\ uploadError' = NoMessage
            /\ uploadSuccess' = NoMessage
            /\ upRequests' = 1               \* ingestFileBackground
            /\ upPc' = "bg"
  /\ UNCHANGED <<authVars, guardVars, apiVars, chatVars, pollVars, processingTasks, upCreated>>

IngestMessages ==
  { <<"Security check failed", ": macro">>, <<"File type", " not allowed">>,
    <<"File size", " too large">>, <<"Too many requests: ", "rate limit", " exceeded">>,
    <<"Upload failed: ", "Bad Gateway">>, NoMessage }

\* The catch block of handleFileUpload.
UploadErrorMessage(m) ==
  IF Includes(m, "Security check failed")
    THEN <<"File rejected for security reasons. Please upload a different file.">>
  ELSE IF Includes(m, "File type")
    THEN <<"File type not supported or file appears to be corrupted.">>
  ELSE IF Includes(m, "File size")
    THEN <<"File size exceeds limit. Please upload a smaller file.">>
  ELSE IF Includes(m, "rate limit")
    THEN <<"Too many file operations. Please wait before uploading more files.">>
  ELSE m

IngestOutcomes == {"task", "processing", "success", "other", "throw"}

\* What handleFileUpload does with the result of either ingest call, through
\* its finally block.
UploadResult(o, m) ==
  /\ CASE o = "task" ->
            /\ upCreated < MaxTasks
            /\ upCreated' = upCreated + 1
            /\ processingTasks' = Append(processingTasks,
                 [taskId |-> upCreated + 1, filename |-> upFile.name, status |-> "queued",
                  progress |-> 0, error |-> NoError])
            /\ pollInterval' = PollingEffect(processingTasks')
            /\ upShown' = [upShown EXCEPT ![upCreated + 1] = <<"queued">>]
            /\ bkStatus' = [bkStatus EXCEPT ![upCreated + 1] = [status |-> "queued", error |-> NoError]]
            /\ uploadSuccess' = <<"File \"">> \o upFile.name
                                   \o <<"\" is being processed. You can continue using the app.">>
            /\ UNCHANGED <<uploadError, upCalled>>
       [] o = "success" ->
            /\ uploadSuccess' = <<"File \"">> \o upFile.name \o <<"\" uploaded successfully!">>
            /\ upCalled' = upCalled + 1        \* onUploadSuccess()
            /\ UNCHANGED <<uploadError, processingTasks, upCreated, pollInterval, upShown, bkStatus>>
       [] OTHER ->
            /\ uploadError' = UploadErrorMessage(IF o # "throw" /\ m = NoMessage
                                                 THEN <<"Upload failed with unknown status">> ELSE m)
            /\ UNCHANGED <<uploadSuccess, processingTasks, upCreated, pollInterval, upShown, bkStatus,
                           upCalled>>
  /\ isUploading' = FALSE
  /\ upPc' = "idle"
  /\ UNCHANGED <<upFile, upVerdict, upRequests, upRuns, upPolls, upResp, upAnswers, upNotified>>

\* The try/catch around the background call: only a thrown error falls back
\* to the synchronous endpoint. With a variant that also falls back on a
\* result it cannot use.
FallsBackOnOther(o) == o \in {"throw", "other"}

FallsBack(o) == o = "throw"

\* ingestFileBackground() settles.
IngestBackground(o, m) ==
  /\ upPc = "bg"
  /\ IF FallsBack(o)
       THEN /\ upPc' = "sync"
            /\ upRequests' = upRequests + 1  \* ingestFile
            /\ UNCHANGED <<processingTasks, isUploading, uploadError, uploadSuccess, upFile,
                           upVerdict, upCreated, upCalled, pollVars>>
       ELSE UploadResult(o, m)
  /\ UNCHANGED <<authVars, guardVars, apiVars, chatVars>>

\* ingestFile() settles.
IngestFile(o, m) ==
  /\ upPc = "sync"
  /\ UploadResult(o, m)
  /\ UNCHANGED <<authVars, guardVars, apiVars, chatVars>>

(***************************************************************************)
(* File upload (FileUpload.tsx): polling of the background tasks.          *)
(***************************************************************************)
\* The backend's job only moves forward; a failed job keeps its error.
TaskErrors == {NoError, SomeError(""), SomeError("corrupt file")}

BackendNext(b) ==
  CASE b.status = "queued" ->
         {[status |-> s, error |-> NoError] : s \in {"queued", "processing", "completed"}}
           \cup {[status |-> "failed", error |-> e] : e \in TaskErrors}
    [] b.status = "processing" ->
         {[status |-> s, error |-> NoError] : s \in {"processing", "completed"}}
           \cup {[status |-> "failed", error |-> e] : e \in TaskErrors}
    [] OTHER -> {b}

\* TaskStatusResponse.progress; 0 stands for every falsy value.
ProgressOf(status) ==
  CASE status = "processing" -> 50 [] status = "completed" -> 100 [] OTHER -> 0

\* status.error || 'Unknown error'
ErrorOrUnknown(e) == IF e.has /\ e.val # "" THEN e.val ELSE "Unknown error"

\* The updater passed to setProcessingTasks, with a variant that rewrites
\* every entry.
ApplyStatusToAll(tasks, id, b) ==
  [i \in 1..Len(tasks) |->
     [tasks[i] EXCEPT !.status = b.status,
                      !.progress = IF ProgressOf(b.status) # 0 THEN ProgressOf(b.status) ELSE @,
                      !.error = b.error]]

ApplyStatus(tasks, id, b) ==
  [i \in 1..Len(tasks) |->
     IF tasks[i].taskId = id
       THEN [tasks[i] EXCEPT !.status = b.status,
                             !.progress = IF ProgressOf(b.status) # 0 THEN ProgressOf(b.status) ELSE @,
                             !.error = b.error]
       ELSE tasks[i]]

getTaskStatusText(task) ==
  CASE task.status = "queued" -> <<"Queued for processing">>
    [] task.status = "processing" -> <<"Processing... ">> \o Decimal(task.progress) \o <<"%">>
    [] task.status = "completed" -> <<"Processing complete">>
    [] task.status = "failed" -> <<"Failed: ", ErrorOrUnknown(task.error)>>
    [] OTHER -> <<"Unknown status">>

Entries(tasks, id) == {i \in 1..Len(tasks) : tasks[i].taskId = id}

\* The statuses an entry has shown, a repeated status counted once.
Shown(shown, tasks, id) ==
  IF Entries(tasks, id) = {} THEN shown
  ELSE LET s == tasks[CHOOSE i \in Entries(tasks, id) : TRUE].status
       IN IF shown # <<>> /\ shown[Len(shown)] = s THEN shown ELSE Append(shown, s)

RECURSIVE Sum(_, _)
Sum(f, S) == IF S = {} THEN 0 ELSE LET x == CHOOSE x \in S : TRUE IN f[x] + Sum(f, S \ {x})

\* Status requests sent so far, and those the callbacks under way will still
\* send.
PollsSent == Sum(upPolls, TaskIds)
Pending == Sum([r \in 1..Len(upRuns) |-> Len(upRuns[r]) - 1], 1..Len(upRuns))

Remove(seq, r) == [k \in 1..(Len(seq) - 1) |-> IF k < r THEN seq[k] ELSE seq[k + 1]]

\* The interval fires: a callback starts over the activeTasks of its closure
\* and sends the status request of the first one.
PollTick ==
  /\ pollInterval.armed
  /\ Len(upRuns) < MaxRuns
  /\ PollsSent + Pending + Len(pollInterval.activeTasks) <= MaxPolls
  /\ upRuns' = Append(upRuns, pollInterval.activeTasks)
  /\ upAnswers' = Append(upAnswers, NoAnswer)
  /\ upPolls' = [upPolls EXCEPT ![pollInterval.activeTasks[1].taskId] = @ + 1]
  /\ UNCHANGED <<authVars, guardVars, apiVars, chatVars, processingTasks, isUploading, uploadError,
                 uploadSuccess, upPc, upFile, upVerdict, upRequests, upCreated,
                 pollInterval, upResp, upShown, bkStatus, upCalled, upNotified>>

\* The backend handles the status request of callback r: the job may have
\* moved on, and the answer b sets out.
BackendAnswers(r, b) ==
  /\ r \in 1..Len(upRuns)
  /\ upAnswers[r] = NoAnswer
  /\ b \in BackendNext(bkStatus[upRuns[r][1].taskId])
  /\ bkStatus' = [bkStatus EXCEPT ![upRuns[r][1].taskId] = b]
  /\ upAnswers' = [upAnswers EXCEPT ![r] = b]
  /\ UNCHANGED <<authVars, guardVars, apiVars, chatVars, processingTasks, isUploading, uploadError,
                 uploadSuccess, upPc, upFile, upVerdict, upRequests, upCreated,
                 pollInterval, upRuns, upPolls, upResp, upShown, upCalled, upNotified>>

\* The callback goes on to the next task of its list, or ends.
PollGoesOn(r) ==
  IF Len(upRuns[r]) > 1
    THEN /\ upRuns' = [upRuns EXCEPT ![r] = Tail(@)]
         /\ upAnswers' = [upAnswers EXCEPT ![r] = NoAnswer]
         /\ upPolls' = [upPolls EXCEPT ![upRuns[r][2].taskId] = @ + 1]
    ELSE /\ upRuns' = Remove(upRuns, r)
         /\ upAnswers' = Remove(upAnswers, r)
         /\ UNCHANGED upPolls

\* getTaskStatus() of callback r resolves with the backend's answer b.
PollResponse(r, b) ==
  /\ r \in 1..Len(upRuns)
  /\ b # NoAnswer /\ upAnswers[r] = b
  /\ LET task == upRuns[r][1] IN
       /\ upNotified' = IF b.status = "completed"
                          THEN [upNotified EXCEPT ![task.taskId] = @ + 1]   \* onUploadSuccess()
                          ELSE upNotified
       /\ upResp' = [upResp EXCEPT ![task.taskId] = Append(@, b.status)]
       /\ processingTasks' = ApplyStatus(processingTasks, task.taskId, b)
       /\ upShown' = [upShown EXCEPT ![task.taskId] = Shown(@, processingTasks', task.taskId)]
       /\ pollInterval' = PollingEffect(processingTasks')
       /\ uploadSuccess' = IF b.status = "completed"
                             THEN <<"File \"">> \o task.filename \o <<"\" processed successfully!">>
                             ELSE uploadSuccess
       /\ uploadError' = IF b.status = "failed"
                           THEN <<"Failed to process \"">> \o task.filename
                                  \o <<"\": ", ErrorOrUnknown(b.error)>>
                           ELSE uploadError
  /\ PollGoesOn(r)
  /\ UNCHANGED <<authVars, guardVars, apiVars, chatVars, isUploading, upPc, upFile, upVerdict,
                 upRequests, upCreated, bkStatus, upCalled>>

\* getTaskStatus() of callback r rejects: the error is logged.
PollThrows(r) ==
  /\ r \in 1..Len(upRuns)
  /\ upResp' = [upResp EXCEPT ![upRuns[r][1].taskId] = Append(@, "thrown")]
  /\ PollGoesOn(r)
  /\ UNCHANGED <<authVars, guardVars, apiVars, chatVars, processingTasks, isUploading, uploadError,
                 uploadSuccess, upPc, upFile, upVerdict, upRequests, upCreated,
                 pollInterval, upShown, bkStatus, upCalled, upNotified>>

\* The dismiss button of a completed or failed entry.
removeCompletedTask(id) ==
  /\ \E i \in Entries(processingTasks, id) : ~Active(processingTasks[i].status)
  /\ processingTasks' = SelectSeq(processingTasks, LAMBDA t : t.taskId # id)
  /\ pollInterval' = PollingEffect(processingTasks')
  /\ UNCHANGED <<authVars, guardVars, apiVars, chatVars, isUploading, uploadError, uploadSuccess,
                 upPc, upFile, upVerdict, upRequests, upCreated, upRuns, upPolls, upResp,
                 upShown, bkStatus, upAnswers, upCalled, upNotified>>

(***************************************************************************)
(* Remote API Client (api.ts): request() and query().                      *)
(***************************************************************************)
\* What a promise of the client rejects with: the JavaScript class of the
\* thrown value, its name and its message.
Thrown(class, name, message) == [class |-> class, name |-> name, message |-> message]

FailedToFetch == Thrown("TypeError", "TypeError", <<"Failed to fetch">>)
AbortError == Thrown("DOMException", "AbortError", <<"The user aborted a request.">>)
NewError(message) == Thrown("Error", "Error", message)

\* v instanceof Error: TypeError and DOMException both inherit from Error.
InstanceOfError(v) == v.class \in {"Error", "TypeError", "DOMException"}
InstanceOfTypeError(v) == v.class = "TypeError"

NetworkError == <<"Network error: Cannot connect to the server">>
TimeoutError == <<"Request timeout: The server took too long to respond">>
UnknownError == <<"Unknown error occurred">>

\* The catch block of request().
RequestCatch(v) ==
  IF InstanceOfError(v) THEN v
  ELSE IF InstanceOfTypeError(v) /\ Includes(v.message, "Failed to fetch")
    THEN NewError(NetworkError)
  ELSE NewError(UnknownError)

\* The catch block of query().
QueryCatch(v) ==
  IF InstanceOfError(v) /\ v.name = "AbortError" THEN NewError(TimeoutError) ELSE v

\* The body of a response, as far as request() reads it; {} is EmptyBody.
Bodies == [detail : {"", "quota exceeded"}, error : {"", "bad input"}, message : {"", "failed"}]
EmptyBody == [detail |-> "", error |-> "", message |-> ""]
StatusTexts == {"Bad Request", "Not Found", "Internal Server Error"}

\* data.detail || data.error || data.message || `API error: ${response.statusText}`
ErrorMessage(body, statusText) ==
  IF body.detail # "" THEN <<body.detail>>
  ELSE IF body.error # "" THEN <<body.error>>
  ELSE IF body.message # "" THEN <<body.message>>
  ELSE <<"API error: ", statusText>>

Operations == {"query", "login", "refreshToken", "logout", "getTaskStatus", "getUserUsage"}

ApiAtRest ==
  /\ apOp = "none" /\ apPc = "idle" /\ apTimer = FALSE /\ apAborted = FALSE
  /\ apCause = "none" /\ apRet = NoRet

\* An operation is called: query() arms its timer, every operation goes into
\* request() and waits for fetch.
ApiCall(op) ==
  /\ apPc \in {"idle", "done"}
  /\ apOp' = op
  /\ apPc' = "fetch"
  /\ apTimer' = (op = "query")
  /\ apAborted' = FALSE
  /\ apCause' = "none"
  /\ apRet' = NoRet
  /\ UNCHANGED <<authVars, guardVars, upVars, chatVars>>

\* The 45 seconds pass while the request is unresolved: controller.abort().
ApiTimeout ==
  /\ apTimer
  /\ apPc \in {"fetch", "json_ok", "json_notok"}
  /\ apAborted' = TRUE
  /\ apTimer' = FALSE
  /\ UNCHANGED <<authVars, guardVars, upVars, chatVars, apOp, apPc, apCause, apRet>>

\* How the operation ends once request() has thrown v: through the catch of
\* request() and, for query(), the catch and finally of query().
ApiThrows(v) ==
  /\ apPc' = "done"
  /\ apRet' = [kind |-> "rejected",
               error |-> IF apOp = "query" THEN QueryCatch(RequestCatch(v)) ELSE RequestCatch(v)]
  /\ apTimer' = FALSE

\* The await of fetch settles.
ApiFetch(o) ==
  /\ apPc = "fetch"
  /\ IF apAborted
       THEN /\ apCause' = "abort"
            /\ ApiThrows(AbortError)
       ELSE CASE o = "transport" ->
                   /\ apCause' = "transport"
                   /\ ApiThrows(FailedToFetch)
              [] o = "ok" ->
                   /\ apPc' = "json_ok"
                   /\ UNCHANGED <<apCause, apRet, apTimer>>
              [] OTHER ->
                   /\ apPc' = "json_notok"
                   /\ UNCHANGED <<apCause, apRet, apTimer>>
  /\ UNCHANGED <<authVars, guardVars, upVars, chatVars, apOp, apAborted>>

\* The await of response.json().catch(() => ({})) settles: an aborted or
\* unparsable body reads as {}.
ApiJson(body, statusText) ==
  /\ apPc \in {"json_ok", "json_notok"}
  /\ apAborted => body = EmptyBody
  /\ IF apPc = "json_notok"
       THEN /\ apCause' = IF apAborted THEN "abort" ELSE "backend"
            /\ ApiThrows(NewError(ErrorMessage(body, statusText)))
       ELSE /\ apCause' = IF apAborted THEN "abort" ELSE "ok"
            /\ apPc' = "done"
            /\ apRet' = [kind |-> "value", val |-> body]
            /\ apTimer' = FALSE
  /\ UNCHANGED <<authVars, guardVars, upVars, chatVars, apOp, apAborted>>

(***************************************************************************)
(* The chat (ChatInterface.tsx).  A text is known by what handleSubmit     *)
(* reads of it: the length of input.trim(), input.length, and whether its  *)
(* lower-case form includes 'clear context' or 'start over'.               *)
(***************************************************************************)
MaxSubmits == 2
TRIAL_LIMIT == 20
MIN_QUESTION == 2
MAX_QUESTION == 5000

Text(t, l, c) == [trimmed |-> t, length |-> l, clear |-> c]
EmptyInput == Text(0, 0, FALSE)
Inputs ==
  {EmptyInput, Text(1, 1, FALSE), Text(8, 8, FALSE),
   Text(13, 13, TRUE), Text(MAX_QUESTION + 1, MAX_QUESTION + 1, FALSE)}

LimitMessage == <<"Trial Complete!", "You've used all 20 free queries.">>
TooShortMessage == <<"Please ask a longer question (at least 2 characters).">>
TooLongMessage == <<"Question is too long. Please keep it under 5000 characters.">>
ClearedMessage == <<"Conversation context cleared. I'm ready for a new topic.">>
AnswerMessage == <<"answer">>
QuestionMessage == <<"question">>

\* What the chat's catch shows for a thrown Error with message m.
ChatErrors == {"", "No documents found", "Request timeout: The server took too long to respond"}
ErrorContent(m) ==
  CASE m = "No documents found" ->
         <<"I don't have a knowledge base yet. Please upload documents first.">>
    [] m = "Request timeout: The server took too long to respond" ->
         <<"The AI service is taking longer than usual to respond. Please try again.">>
    [] OTHER ->
         <<"I encountered an error: ", m, ". Please try again or rephrase your question.">>

Message(r, c, s) == [role |-> r, content |-> c, by |-> s]

\* usageResponse.usage.queries_used >= 20
NoUsage == [state |-> "none", used |-> 0]
UsageFailed == [state |-> "failed", used |-> 0]
UsageOk(n) == [state |-> "ok", used |-> n]
LimitReachedAbove(usage) == usage.state = "ok" /\ usage.used > TRIAL_LIMIT
LimitReached(usage) == usage.state = "ok" /\ usage.used >= TRIAL_LIMIT

Submit(p, i, u) == [pc |-> p, input |-> i, usage |-> u]
Request(op, s) == [op |-> op, by |-> s]

ChatAtRest ==
  /\ messages = <<>> /\ input = EmptyInput /\ isLoading = FALSE
  /\ chSubmits = <<>> /\ chRequests = <<>>
  /\ queriesUsed = TRIAL_LIMIT - 1 /\ chOnQuery = 0

ChatInit ==
  /\ messages = <<>> /\ input = EmptyInput /\ isLoading = FALSE
  /\ chSubmits = <<>> /\ chRequests = <<>>
  /\ queriesUsed \in {TRIAL_LIMIT - 1, TRIAL_LIMIT, TRIAL_LIMIT + 1} /\ chOnQuery = 0

\* onChange of the text field, which is disabled while isLoading.
SetInput(i) ==
  /\ ~isLoading /\ i # input
  /\ input' = i
  /\ UNCHANGED <<authVars, guardVars, upVars, apiVars, messages, isLoading, chSubmits,
                 chRequests, queriesUsed, chOnQuery>>

\* handleSubmit, up to its first await: the form is submitted (the field
\* and the button are disabled while isLoading).
ChatHandleSubmit ==
  /\ ~isLoading
  /\ Len(chSubmits) < MaxSubmits
  /\ IF input.trimmed = 0 \/ ~user.has
       THEN /\ chSubmits' = Append(chSubmits, Submit("done", input, NoUsage))
            /\ UNCHANGED chRequests
       ELSE /\ chSubmits' = Append(chSubmits, Submit("usage", input, NoUsage))
            /\ chRequests' = Append(chRequests, Request("getUserUsage", Len(chSubmits) + 1))
  /\ UNCHANGED <<authVars, guardVars, upVars, apiVars, messages, input, isLoading,
                 queriesUsed, chOnQuery>>

\* handleSubmit s, resumed after await apiClient.getUserUsage(user.id), up
\* to its return or its next await.
UsageAnswers(s, o) ==
  /\ s \in 1..Len(chSubmits) /\ chSubmits[s].pc = "usage"
  /\ LET usage == IF o = "ok" THEN UsageOk(queriesUsed) ELSE UsageFailed
         text == chSubmits[s].input
         End(c) == /\ messages' = Append(messages, Message("assistant", c, s))
                   /\ chSubmits' = [chSubmits EXCEPT ![s] = Submit("done", text, usage)]
                   /\ UNCHANGED <<input, isLoading, chRequests>>
     IN  IF LimitReached(usage) THEN End(LimitMessage)
         ELSE IF text.trimmed < MIN_QUESTION THEN End(TooShortMessage)
         ELSE IF text.length > MAX_QUESTION THEN End(TooLongMessage)
         ELSE /\ messages' = Append(messages, Message("user", QuestionMessage, s))
              /\ input' = EmptyInput
              /\ isLoading' = TRUE
              /\ IF text.clear
                   THEN /\ chRequests' = Append(chRequests, Request("clearConversationContext", s))
                        /\ chSubmits' = [chSubmits EXCEPT ![s] = Submit("clear", text, usage)]
                   ELSE /\ chRequests' = Append(chRequests, Request("query", s))
                        /\ chSubmits' = [chSubmits EXCEPT ![s] = Submit("query", text, usage)]
  /\ UNCHANGED <<authVars, guardVars, upVars, apiVars, queriesUsed, chOnQuery>>

\* The catch and the finally of handleSubmit s.
ChatCatch(s, m) ==
  /\ messages' = Append(messages, Message("assistant", ErrorContent(m), s))
  /\ isLoading' = FALSE
  /\ chSubmits' = [chSubmits EXCEPT ![s].pc = "done"]

\* handleSubmit s, resumed after await apiClient.clearConversationContext.
ClearAnswers(s, o, m) ==
  /\ s \in 1..Len(chSubmits) /\ chSubmits[s].pc = "clear"
  /\ IF o = "ok"
       THEN /\ m = ""
            /\ messages' = Append(messages, Message("assistant", ClearedMessage, s))
            /\ isLoading' = FALSE
            /\ chSubmits' = [chSubmits EXCEPT ![s].pc = "done"]
       ELSE ChatCatch(s, m)
  /\ UNCHANGED <<authVars, guardVars, upVars, apiVars, input, chRequests, queriesUsed,
                 chOnQuery>>

\* handleSubmit s, resumed after await apiClient.query(...).
QueryAnswers(s, o, m) ==
  /\ s \in 1..Len(chSubmits) /\ chSubmits[s].pc = "query"
  /\ CASE o = "success" ->
            /\ m = ""
            /\ messages' = Append(messages, Message("assistant", AnswerMessage, s))
            /\ isLoading' = FALSE
            /\ chSubmits' = [chSubmits EXCEPT ![s].pc = "done"]
            /\ chOnQuery' = chOnQuery + 1
            /\ queriesUsed' = queriesUsed + 1
       [] o = "failure" ->
            \* throw new Error(response.error_message || 'Failed to get response')
            /\ m \in {"", "No documents found"}
            /\ ChatCatch(s, OrElse(m, "Failed to get response"))
            /\ UNCHANGED <<chOnQuery, queriesUsed>>
       [] OTHER ->
            /\ ChatCatch(s, m)
            /\ UNCHANGED <<chOnQuery, queriesUsed>>
  /\ UNCHANGED <<authVars, guardVars, upVars, apiVars, input, chRequests>>

(***************************************************************************)
(* Specifications.                                                         *)
(***************************************************************************)
GuardAtRest ==
  /\ gReq = Url("self", Root, NoQuery)
  /\ gCookies = ClearedCookies
  /\ gPhase = "served" /\ gHops = 0 /\ gLast = NoExchange
  /\ gOrig = Root /\ gTrip = "none"

AuthAtRest ==
  /\ AuthInit
  /\ rev = 1
  /\ loc = Url("self", LoginPath, NoQuery)

Init == AuthInit /\ GuardAtRest /\ UploadAtRest /\ ApiAtRest /\ ChatAtRest

\* The life of a session: sign-in through the form, refreshes, the interval,
\* logout, page loads and the passing of time; one operation at a time.
Next ==
  \/ \E p \in Procs, o \in GetSessionOutcomes : CheckTokenExpiration(p, o)
  \/ \E p \in Procs, o \in GetSessionOutcomes : RefreshGetSession(p, o)
  \/ \E p \in Procs, o \in RefreshApiOutcomes : RefreshApi(p, o)
  \/ \E p \in Procs, o \in SetSessionOutcomes : RefreshSetSession(p, o)
  \/ \E p \in Procs, o \in GetSessionOutcomes : LogoutGetSession(p, o)
  \/ \E p \in Procs, o \in LogoutApiOutcomes : LogoutApi(p, o)
  \/ \E p \in Procs, o \in SignOutOutcomes : LogoutSignOut(p, o)
  \/ \E p \in Procs, o \in GetSessionOutcomes : StartupGetSession(p, o)
  \/ EditForm("u1", "pw", "")
  \/ HandleSubmit(TRUE)
  \/ \E o \in LoginApiOutcomes, m \in BackendMessages \cup ThrownMessages : LoginApi(o, m)
  \/ \E o \in SetSessionOutcomes, m \in ThrownMessages \cup {""} : InstallSession(o, m)
  \/ InSetUser
  \/ InCookieAccess
  \/ InCookieRefresh
  \/ InNavigate
  \/ NavTimerFires
  \/ CallLogout(TRUE)
  \/ CallRefreshToken(TRUE)
  \/ IntervalTick(TRUE)
  \/ PageLoad
  \/ Advance

Spec == Init /\ [][Next]_vars

\* The steps of the startup effect's call chain. Every promise it awaits
\* settles, so a step that stays possible is taken.
StartupStep ==
  \/ \E o \in GetSessionOutcomes : CheckTokenExpiration("init", o)
  \/ \E o \in GetSessionOutcomes : RefreshGetSession("init", o)
  \/ \E o \in RefreshApiOutcomes : RefreshApi("init", o)
  \/ \E o \in SetSessionOutcomes : RefreshSetSession("init", o)
  \/ \E o \in GetSessionOutcomes : LogoutGetSession("init", o)
  \/ \E o \in LogoutApiOutcomes : LogoutApi("init", o)
  \/ \E o \in SignOutOutcomes : LogoutSignOut("init", o)
  \/ \E o \in GetSessionOutcomes : StartupGetSession("init", o)

SpecLive == Init /\ [][Next]_vars /\ WF_vars(StartupStep)

\* The login view: every way of filling the form, sign-in and sign-up.
NextForm ==
  \/ \E p \in Procs, o \in GetSessionOutcomes : CheckTokenExpiration(p, o)
  \/ \E p \in Procs, o \in GetSessionOutcomes : StartupGetSession(p, o)
  \/ \E f \in Fillings : EditForm(f[1], f[2], f[3])
  \/ ToggleMode
  \/ HandleSubmit(TRUE)
  \/ \E o \in LoginApiOutcomes, m \in BackendMessages \cup ThrownMessages : LoginApi(o, m)
  \/ \E o \in RegisterOutcomes, m \in BackendMessages \cup ThrownMessages : RegisterFetch(o, m)
  \/ \E o \in SetSessionOutcomes, m \in ThrownMessages \cup {""} : InstallSession(o, m)
  \/ InSetUser
  \/ InCookieAccess
  \/ InCookieRefresh
  \/ InNavigate
  \/ NavTimerFires
  \/ PageLoad

SpecForm == Init /\ [][NextForm]_vars

\* The same life with the triggers overlapping: a timer tick, a manual
\* refreshToken() and the startup check may start while another is pending.
NextConc ==
  \/ \E p \in Procs, o \in GetSessionOutcomes : CheckTokenExpiration(p, o)
  \/ \E p \in Procs, o \in GetSessionOutcomes : RefreshGetSession(p, o)
  \/ \E p \in Procs, o \in RefreshApiOutcomes : RefreshApi(p, o)
  \/ \E p \in Procs, o \in SetSessionOutcomes : RefreshSetSession(p, o)
  \/ \E p \in Procs, o \in GetSessionOutcomes : LogoutGetSession(p, o)
  \/ \E p \in Procs, o \in LogoutApiOutcomes : LogoutApi(p, o)
  \/ \E p \in Procs, o \in SignOutOutcomes : LogoutSignOut(p, o)
  \/ \E p \in Procs, o \in GetSessionOutcomes : StartupGetSession(p, o)
  \/ CallRefreshToken(FALSE)
  \/ IntervalTick(FALSE)
  \/ PageLoad
  \/ Advance

\* The home page has just been loaded after a sign-in: the store and the
\* cookies hold the first token pair, AuthProvider's effect has started.
InitConc ==
  /\ GuardAtRest /\ UploadAtRest /\ ApiAtRest /\ ChatAtRest
  /\ rev \in Revisions
  /\ now = 0 /\ advances = 0 /\ issued = 1
  /\ session = SessionOf(TokenPair(1, "u1", TokenTTL).access_token,
                         TokenPair(1, "u1", TokenTTL).refresh_token)
  /\ cookies = MirrorCookies(TokenPair(1, "u1", TokenTTL))
  /\ user = NoUser /\ loading = TRUE
  /\ loc = Url("self", Root, NoQuery)
  /\ href = NoNav /\ navTimer = NoNav /\ loads = 0
  /\ pc = [p \in Procs |-> IF p = "init" THEN "ck_get" ELSE "idle"]
  /\ top = [p \in Procs |-> IF p = "init" THEN "init" ELSE "none"]
  /\ viaRefresh = [p \in Procs |-> FALSE]
  /\ data = [p \in Procs |-> NoData]
  /\ ret = [p \in Procs |-> NoRet]
  /\ failed = [p \in Procs |-> "none"]
  /\ form = EmptyForm

SpecConc == InitConc /\ [][NextConc]_vars

\* The home page of a signed-in user, with nothing under way.
HomeAtRest ==
  /\ rev = 1
  /\ now = 0 /\ advances = 0 /\ issued = 1
  /\ session = SessionOf(TokenPair(1, "u1", TokenTTL).access_token,
                         TokenPair(1, "u1", TokenTTL).refresh_token)
  /\ cookies = MirrorCookies(TokenPair(1, "u1", TokenTTL))
  /\ user = UserOf("u1") /\ loading = FALSE
  /\ loc = Url("self", Root, NoQuery)
  /\ href = NoNav /\ navTimer = NoNav /\ loads = 0
  /\ pc = [p \in Procs |-> "idle"]
  /\ top = [p \in Procs |-> "none"]
  /\ viaRefresh = [p \in Procs |-> FALSE]
  /\ data = [p \in Procs |-> NoData]
  /\ ret = [p \in Procs |-> NoRet]
  /\ failed = [p \in Procs |-> "none"]
  /\ form = EmptyForm

\* File selection: every file, every outcome of the two ingest calls.
NextUpload ==
  \/ \E f \in Files : HandleFileUpload(f)
  \/ \E o \in IngestOutcomes, m \in IngestMessages : IngestBackground(o, m)
  \/ \E o \in IngestOutcomes, m \in IngestMessages : IngestFile(o, m)

InitUpload == HomeAtRest /\ GuardAtRest /\ UploadAtRest /\ ApiAtRest /\ ChatAtRest
SpecUpload == InitUpload /\ [][NextUpload]_vars

\* Background tasks: uploads that start a task, the interval, the status
\* responses in every order the network allows, and the dismiss button.
BackendStatuses == [status : {"queued", "processing", "completed", "failed"}, error : TaskErrors]

NextPoll ==
  \/ HandleFileUpload(GoodFile)
  \/ IngestBackground("task", NoMessage)
  \/ PollTick
  \/ \E r \in 1..MaxRuns, b \in BackendStatuses : BackendAnswers(r, b)
  \/ \E r \in 1..MaxRuns, b \in BackendStatuses : PollResponse(r, b)
  \/ \E r \in 1..MaxRuns : PollThrows(r)
  \/ \E id \in TaskIds : removeCompletedTask(id)

SpecPoll == InitUpload /\ [][NextPoll]_vars

\* The API client: every operation, every way its request ends.
NextApi ==
  \/ \E op \in Operations : ApiCall(op)
  \/ ApiTimeout
  \/ \E o \in {"ok", "notok", "transport"} : ApiFetch(o)
  \/ \E body \in Bodies, st \in StatusTexts : ApiJson(body, st)

SpecApi == InitUpload /\ [][NextApi]_vars

\* The chat of a signed-in user on the home page.
NextChat ==
  \/ \E i \in Inputs : SetInput(i)
  \/ ChatHandleSubmit
  \/ \E s \in 1..MaxSubmits, o \in {"ok", "throw"} : UsageAnswers(s, o)
  \/ \E s \in 1..MaxSubmits, o \in {"ok", "throw"}, m \in ChatErrors : ClearAnswers(s, o, m)
  \/ \E s \in 1..MaxSubmits, o \in {"success", "failure", "throw"}, m \in ChatErrors :
        QueryAnswers(s, o, m)

InitChat == HomeAtRest /\ GuardAtRest /\ UploadAtRest /\ ApiAtRest /\ ChatInit
SpecChat == InitChat /\ [][NextChat]_vars

InitGuard == GuardInit /\ AuthAtRest /\ UploadAtRest /\ ApiAtRest /\ ChatAtRest
SpecGuard == InitGuard /\ [][GuardNext]_vars

(***************************************************************************)
(* Properties.                                                             *)
(***************************************************************************)
\* The Route Guard sees neither cookie.
CookiesCleared == ~Sent(cookies.access).set /\ ~Sent(cookies.refresh).set

\* The Route Guard's verdict on the cookies the browser would send now.
GuardVerdict == IsAuthenticated(Sent(cookies.access), Sent(cookies.refresh))

FullCleanup ==
  /\ ~session.has
  /\ CookiesCleared
  /\ user = NoUser
  /\ href = Nav(LoginPath)

LogoutEnded(p) == top[p] = "logout" /\ pc[p] = "done"

\* checkTokenExpiration() has returned on chain p (the startup effect goes on
\* to its own getSession()).
CheckReturned(p) ==
  \/ top[p] = "init" /\ pc[p] = "gs_get"
  \/ top[p] = "check" /\ pc[p] = "done"

\* refreshToken() has returned v on chain p.
RefreshReturned(p, v) ==
  /\ (top[p] = "refresh" /\ pc[p] = "done") \/ CheckReturned(p)
  /\ ret[p] = Value(v)

\* C1: after a successful login and any number of refreshToken() calls, once
\* logout() has completed the user is null, both cookies are cleared and the
\* Session Store holds no session. (Every logout() of this specification
\* follows a successful login: the logout button is on the guarded home page.)
C1_LogoutEndsUnauthenticated ==
  LogoutEnded("user") => (user = NoUser /\ CookiesCleared /\ ~session.has)

\* C2: logout() performs the full cleanup (store signed out, both cookies
\* expired, user null, navigation to /login) also when the backend logout
\* notification throws.
C2_LogoutCleansUpWhenNotificationThrows ==
  (LogoutEnded("user") /\ failed["user"] = "api") => FullCleanup

\* C3: a refreshToken() call that had a refresh token and returned false
\* (the backend call threw, or answered without success/data) has ended in a
\* full logout: store cleared, both cookies cleared, navigation to /login.
C3_FailedRefreshLogsOut ==
  \A p \in Procs :
    (RefreshReturned(p, FALSE) /\ data[p].session.has)
      => (~session.has /\ CookiesCleared /\ href = Nav(LoginPath))

\* C4: when the expiration check found the session within five minutes of
\* its expiry and the backend accepted the refresh token, refreshToken()
\* returned true and the store's expires_at is strictly later than before.
C4_NearExpiryRefreshExtends ==
  \A p \in Procs :
    (CheckReturned(p) /\ data[p].result.has)
      => /\ ret[p] = Value(TRUE)
         /\ session.has
         /\ session.expires_at > data[p].session.expires_at

\* C8: a refreshToken() call that returned true has installed the new pair
\* in the Session Store and rewritten both cookies with the new tokens and
\* the new expiration, so the cookie tokens equal the store's tokens.
C8_RefreshMirrorsNewPair ==
  \A p \in Procs :
    (RefreshReturned(p, TRUE) /\ data[p].result.has)
      => /\ session.has
         /\ session.access_token = data[p].result.access_token
         /\ session.refresh_token = data[p].result.refresh_token
         /\ cookies = MirrorCookies(data[p].result)

\* The cookies the guard sees hold exactly the store's tokens.
MirrorEqualsStore ==
  IF session.has
  THEN /\ Sent(cookies.access).set /\ Sent(cookies.refresh).set
       /\ cookies.access.value = session.access_token
       /\ cookies.refresh.value = session.refresh_token
  ELSE CookiesCleared

\* C9: Cookie Mirror and Session Store are equal again when a proactive
\* expiration check has completed, and whenever no operation is in flight
\* the Route Guard's verdict equals whether the store holds a session.
C9_MirrorFollowsStore ==
  /\ \A p \in Procs : CheckReturned(p) => MirrorEqualsStore
  /\ AllIdle => (GuardVerdict <=> session.has)

(***************************************************************************)
(* The login view (SpecForm).                                              *)
(***************************************************************************)
\* The token pair login() holds installed in the Session Store.
Installed(r) ==
  /\ session.has
  /\ session.access_token = r.access_token
  /\ session.refresh_token = r.refresh_token

\* One step of login(): the statements after the backend's answer run in the
\* order install, setUser, access cookie, refresh cookie, navigation; none
\* but the last touches the navigation, and the last one issues it to
\* `target` (window.location.href in revision 1, the timer of revision 2).
LoginStepsInOrder(target) ==
  LET r  == data["form"].result
      at == pc["form"]
      to == pc'["form"]
      noNavigation == (href'.has => href' = href) /\ (navTimer'.has => navTimer' = navTimer)
      bothCookies ==
        /\ cookies.access = [set |-> TRUE, value |-> r.access_token, expires |-> r.expires_at]
        /\ cookies.refresh = [set |-> TRUE, value |-> r.refresh_token, expires |-> r.expires_at]
  IN  top["form"] = "login" =>
        /\ (at = "in_set" /\ to = "in_user") =>
             /\ session' = SessionOf(r.access_token, r.refresh_token)
             /\ cookies' = cookies /\ noNavigation
        /\ (at = "in_user" /\ to # at) =>
             /\ to = "in_cookieA"
             /\ Installed(r)
             /\ user' = [has |-> TRUE, id |-> <<"id", form.email>>, email |-> form.email]
             /\ cookies' = cookies /\ noNavigation
        /\ (at = "in_cookieA" /\ to # at) =>
             /\ to = "in_cookieR"
             /\ Installed(r) /\ user.has
             /\ cookies'.access = [set |-> TRUE, value |-> r.access_token, expires |-> r.expires_at]
             /\ cookies'.refresh = cookies.refresh
             /\ noNavigation
        /\ (at = "in_cookieR" /\ to # at) =>
             /\ to = "in_nav"
             /\ Installed(r) /\ user.has
             /\ cookies'.refresh = [set |-> TRUE, value |-> r.refresh_token, expires |-> r.expires_at]
             /\ cookies'.access = cookies.access
             /\ noNavigation
        /\ (at = "in_nav" /\ to # at) =>
             /\ ret'["form"] = Resolved
             /\ Installed(r) /\ user.has /\ bothCookies
             /\ cookies' = cookies
             /\ IF rev = 1 THEN href' = Nav(target) ELSE navTimer' = Nav(target)
        /\ (at \in {"lg_api", "in_set"} /\ to \notin {"in_user", at}) => noNavigation

\* C5 (as stated): a successful login installs the token pair, sets the
\* user, writes both cookies with the server's expires_at and only then
\* issues the navigation, to the value of `from` when the parameter is
\* present and to / otherwise.
C5_LoginOrderFromPresent ==
  [][LoginStepsInOrder(IF loc.query.has THEN FormDecode(loc.query.raw) ELSE Root)]_vars

\* C5 (amended): the same order; the navigation goes to the value of `from`
\* when the parameter is present and not empty, and to / otherwise. No
\* navigation is issued before both cookies are written.
C5_LoginOrder ==
  [][LoginStepsInOrder(IF loc.query.has /\ FormDecode(loc.query.raw) # <<>>
                       THEN FormDecode(loc.query.raw) ELSE Root)]_vars

\* A login at /login?from=%2Fa has resolved with the session installed, both
\* cookies written and the navigation to /a issued.
C5_Witness ==
  /\ top["form"] = "login" /\ pc["form"] = "done" /\ ret["form"] = Resolved
  /\ loc.query = Query(<<"%", "2", "F", "a">>)
  /\ Installed(data["form"].result)
  /\ cookies.access.set /\ cookies.refresh.set
  /\ (href = Nav(<<"/", "a">>) \/ navTimer = Nav(<<"/", "a">>))

\* C6: a login() that fails (the backend call throws or answers without
\* success, or installing the session fails) rejects with the error's
\* message and leaves the user, the cookies, the Session Store and the
\* navigation as they were; the form then shows that message and is no
\* longer loading.
C6_FailedLoginLeavesStateUnauthenticated ==
  [][(top["form"] = "login" /\ pc["form"] \in {"lg_api", "in_set"}
        /\ pc'["form"] = "done" /\ ret'["form"].kind = "rejected")
      => /\ user' = user /\ (user = NoUser => user' = NoUser)
         /\ cookies' = cookies /\ session' = session
         /\ href' = href /\ navTimer' = navTimer
         /\ ret'["form"].message # ""
         /\ form'.error = ret'["form"].message
         /\ ~form'.isLoading]_vars

\* A login was rejected by the backend: nobody is signed in, no cookie is
\* set, no navigation is pending and the form shows the backend's message.
C6_Witness ==
  /\ top["form"] = "login" /\ pc["form"] = "done"
  /\ ret["form"] = Rejected("Invalid credentials")
  /\ user = NoUser /\ cookies = ClearedCookies /\ ~session.has
  /\ ~href.has /\ ~navTimer.has
  /\ form.error = "Invalid credentials" /\ ~form.isLoading

\* C7: a register() whose backend answer has status success but no access
\* token resolves with {requiresConfirmation: true, message}, leaves the
\* Session Store, the user and both cookies as they were and issues no
\* navigation; the form then shows the message and its email, password and
\* confirm-password fields are empty.
C7_RegisterAwaitingConfirmation ==
  [][(top["form"] = "register" /\ pc["form"] = "rg_fetch"
        /\ pc'["form"] = "done" /\ ret'["form"].kind = "value")
      => /\ ret'["form"].val.requiresConfirmation = TRUE
         /\ ret'["form"].val.message # ""
         /\ session' = session /\ user' = user /\ cookies' = cookies
         /\ href' = href /\ navTimer' = navTimer
         /\ form'.success = ret'["form"].val.message
         /\ form'.email = "" /\ form'.password = "" /\ form'.confirmPassword = ""
         /\ form'.error = "" /\ ~form'.isLoading]_vars

\* A sign-up ended with the confirmation message shown and the fields empty.
C7_Witness ==
  /\ top["form"] = "register" /\ pc["form"] = "done"
  /\ ret["form"].kind = "value"
  /\ form.success = "Please check your email for confirmation"
  /\ form.email = "" /\ form.password = "" /\ form.confirmPassword = ""
  /\ ~form.isLogin
  /\ user = NoUser /\ cookies = ClearedCookies /\ ~session.has

(***************************************************************************)
(* The Route Guard (SpecGuard).                                            *)
(***************************************************************************)
\* A path-absolute reference on the same host.
SameHostPath(s) == s \in Paths /\ ~(Len(s) >= 2 /\ s[2] = "/")

\* C10: the guard answers a request without both cookies to a guarded path
\* P other than /login with a redirect to /login?from=P, and a request with
\* both cookies to /login?from=P with a redirect to P, to / when `from` is
\* absent or equals /login; a request sent to /login and back ends at the
\* path that was first requested.
C10_GuardRoundTrip ==
  /\ gLast.has =>
       LET q    == gLast.req
           both == gLast.access.set /\ gLast.refresh.set
           from == GetFrom(q.query)
       IN  /\ (~both /\ q.path # LoginPath) =>
                /\ gLast.resp.kind = "redirect"
                /\ gLast.resp.url.origin = q.origin
                /\ gLast.resp.url.path = LoginPath
                /\ gLast.resp.url.query.has
                /\ FormDecode(gLast.resp.url.query.raw) = q.path
           /\ (both /\ q.path = LoginPath) =>
                /\ gLast.resp.kind = "redirect"
                /\ (~from.has \/ from.val = LoginPath) =>
                     gLast.resp.url = Url(q.origin, Root, NoQuery)
                /\ (from.has /\ from.val # LoginPath /\ SameHostPath(from.val)) =>
                     gLast.resp.url = Url(q.origin, from.val, NoQuery)
  /\ gTrip = "back" => gReq = Url("self", gOrig, NoQuery)

\* A request to / was sent to /login?from=%2F and, once both cookies were
\* there, redirected back to /.
C10_Witness ==
  /\ gTrip = "back" /\ gOrig = Root
  /\ gLast.has /\ gLast.req = Url("self", LoginPath, Query(<<"%", "2", "F">>))
  /\ gLast.access.set /\ gLast.refresh.set
  /\ gReq = Url("self", Root, NoQuery)

\* The guard's answer tabulated over its three inputs: whether both cookies
\* are there, the request's path and its `from` parameter.
GuardTable(both, url, from) ==
  IF ~both /\ url.path # LoginPath
  THEN [kind |-> "redirect",
        url |-> [origin |-> url.origin, path |-> LoginPath,
                 query |-> [has |-> TRUE, raw |-> FormEncode(url.path)]]]
  ELSE IF both /\ url.path = LoginPath
  THEN IF from.has /\ from.val # <<>> /\ from.val # LoginPath
       THEN [kind |-> "redirect", url |-> ResolveUrl(from.val, url)]
       ELSE [kind |-> "redirect",
             url |-> [origin |-> url.origin, path |-> Root, query |-> NoQuery]]
  ELSE [kind |-> "next"]

\* C11: the guard's response is determined by whether both cookies are
\* present, by the request path and by the `from` parameter: one cookie
\* alone counts as unauthenticated, the request proceeds exactly when
\* (authenticated and not at /login) or (unauthenticated and at /login), and
\* the cookies' values play no part.
C11_GuardIsFunctionOfPresencePathFrom ==
  gLast.has =>
    LET both == gLast.access.set /\ gLast.refresh.set
        from == IF gLast.req.query.has
                THEN [has |-> TRUE, val |-> FormDecode(gLast.req.query.raw)]
                ELSE NoFrom
    IN  /\ gLast.resp = GuardTable(both, gLast.req, from)
        /\ gLast.resp.kind = "next" <=>
             \/ both /\ gLast.req.path # LoginPath
             \/ ~both /\ gLast.req.path = LoginPath

\* A request to / that carried only sb-access-token, with an empty value,
\* was sent to /login like one that carried no cookie.
C11_Witness ==
  /\ gLast.has /\ gLast.req.path = Root
  /\ gLast.access = [set |-> TRUE, value |-> ""] /\ ~gLast.refresh.set
  /\ gLast.resp.kind = "redirect" /\ gLast.resp.url.path = LoginPath

(***************************************************************************)
(* Overlapping refresh triggers (SpecConc).                                *)
(***************************************************************************)
\* The call chains that await apiClient.refreshToken(...).
RefreshInFlight == {p \in Procs : pc[p] = "rf_api"}

\* C20: at any time at most one refresh request is in flight, however the
\* startup check, the timer's ticks and manual refreshToken() calls
\* interleave.
C20_AtMostOneRefreshInFlight ==
  Cardinality(RefreshInFlight) <= 1

DotExtension(name) ==
  IF Dots(name) = {} THEN <<>>
  ELSE LET d == CHOOSE i \in Dots(name) : \A j \in Dots(name) : j <= i
       IN [i \in 1..(Len(name) - d + 1) |-> ToLowerCase(name[d + i - 1])]

\* C13: the type check of handleFileUpload reads the extension of the name
\* and never the MIME type: the verdict is the same for every MIME type, and
\* a file whose extension is not in the allow-list gets the type error and
\* no request is sent.
C13_TypeCheckByExtensionOnly ==
  [][\A f \in Files :
       (f.size <= MAX_FILE_SIZE /\ HandleFileUpload(f)) =>
         /\ \A t \in MimeTypes : Validate([f EXCEPT !.type = t]) = upVerdict'
         /\ DotExtension(f.name) \notin allowedExtensions =>
              /\ uploadError' = TypeNotSupported
              /\ upRequests' = 0 /\ upPc' = "idle"]_vars

(***************************************************************************)
(* Task polling (SpecPoll).                                                *)
(***************************************************************************)
\* C14: for a single tracked task whose status responses are queued,
\* processing, completed, the entry shows queued, processing, completed,
\* each once, and exactly three status requests are sent for it.
C14_ThreePollsThreeStates ==
  (upCreated = 1 /\ upResp[1] = <<"queued", "processing", "completed">>) =>
    /\ upShown[1] = <<"queued", "processing", "completed">>
    /\ upPolls[1] = 3

\* C15: an entry whose task answered failed with error E keeps status failed
\* and error E, its status text contains E, and no status request is sent
\* for that task any more.
C15_FailedTaskKeepsErrorAndIsPolledNoMore ==
  [][\A i \in 1..Len(processingTasks) :
       LET t == processingTasks[i] IN
         t.status = "failed" =>
           /\ t.error = bkStatus[t.taskId].error
           /\ t.error.has /\ t.error.val # "" => Includes(getTaskStatusText(t), t.error.val)
           /\ \A j \in Entries(processingTasks', t.taskId) : processingTasks'[j] = t
           /\ upPolls'[t.taskId] = upPolls[t.taskId]]_vars

\* C16: the interval is armed exactly when some task of the list is queued
\* or processing, and a status request is never sent for a task whose entry
\* is completed or failed.
C16_TimerArmedIffActiveAndTerminalNeverPolled ==
  [][/\ pollInterval'.armed <=> ActiveTasks(processingTasks') # <<>>
     /\ \A id \in TaskIds :
          upPolls'[id] > upPolls[id] =>
            \A i \in Entries(processingTasks, id) : Active(processingTasks[i].status)]_vars

\* C17: when a status request for task T settles (with any status, or with
\* an error), every other entry of the list is unchanged, no entry is
\* removed, every other task that is queued or processing is in the list of
\* an armed interval, and no request a callback still has to send is
\* dropped.
C17_PollResultTouchesOnlyItsTask ==
  [][\A id \in TaskIds :
       upResp'[id] # upResp[id] =>
         /\ Len(processingTasks') = Len(processingTasks)
         /\ \A i \in 1..Len(processingTasks) :
              processingTasks[i].taskId # id =>
                /\ processingTasks'[i] = processingTasks[i]
                /\ Active(processingTasks[i].status) =>
                     /\ pollInterval'.armed
                     /\ \E k \in 1..Len(pollInterval'.activeTasks) :
                          pollInterval'.activeTasks[k].taskId = processingTasks[i].taskId
         /\ PollsSent' + Pending' = PollsSent + Pending]_vars

\* Task 1 has failed after one of its polls had thrown, and task 2 is still
\* processing under an armed interval.
C17_Witness ==
  /\ Len(processingTasks) = 2
  /\ processingTasks[1].taskId = 1 /\ processingTasks[1].status = "failed"
  /\ processingTasks[1].error = SomeError("corrupt file")
  /\ upResp[1] = <<"thrown", "failed">>
  /\ processingTasks[2].status = "processing" /\ processingTasks[2].progress = 50
  /\ pollInterval.armed /\ Len(pollInterval.activeTasks) = 1

(***************************************************************************)
(* Remote API Client (SpecApi).                                            *)
(***************************************************************************)
\* C18: a query() ends with its timer cleared; if the 45 seconds passed
\* before its request had resolved it rejects with the timeout error, and
\* otherwise it was never aborted and does not end with the timeout error.
C18_QueryTimeoutIsClassified ==
  (apOp = "query" /\ apPc = "done") =>
    /\ ~apTimer
    /\ apAborted <=> apRet = [kind |-> "rejected", error |-> NewError(TimeoutError)]

\* C19: an operation whose fetch rejected for a transport failure rejects
\* with "Network error: Cannot connect to the server".
C19_TransportFailureIsNetworkError ==
  (apPc = "done" /\ apCause = "transport") =>
    /\ apRet.kind = "rejected"
    /\ apRet.error.message = NetworkError

(***************************************************************************)
(* The synchronous fallback (SpecUpload).                                  *)
(***************************************************************************)
\* C21: handleFileUpload sends the synchronous ingest request only when the
\* background call for the same file has thrown, and then once; a background
\* call that returns, whatever its result, ends the upload without the
\* synchronous request; a success result of the synchronous call adds no
\* task and calls onUploadSuccess once.
C21_SynchronousIngestOnlyAsFallback ==
  [][/\ (upPc' = "sync" /\ upPc # "sync") =>
          /\ upPc = "bg" /\ upRequests = 1 /\ upRequests' = 2
          /\ upFile' = upFile
     /\ upPc = "sync" => upRequests = 2 /\ upRequests' = 2 /\ upPc' = "idle"
     /\ \A o \in IngestOutcomes \ {"throw"}, m \in IngestMessages :
          IngestBackground(o, m) => upPc' = "idle" /\ upRequests' = 1
     /\ \A m \in IngestMessages :
          IngestFile("success", m) =>
            /\ processingTasks' = processingTasks /\ upCreated' = upCreated
            /\ upCalled = 0 /\ upCalled' = 1]_vars

\* The background call threw, the synchronous call answered success: two
\* requests, no task, one call of onUploadSuccess.
C21_Witness ==
  /\ upPc = "idle" /\ upVerdict = "ok" /\ upRequests = 2
  /\ upCalled = 1 /\ processingTasks = <<>> /\ upCreated = 0
  /\ Includes(uploadSuccess, "\" uploaded successfully!")

(***************************************************************************)
(* Stale callbacks and late answers (SpecPoll).                            *)
(***************************************************************************)
\* C23: once no task of the list is queued or processing, no status request
\* is sent and no entry is modified, also by a callback that was running
\* when the interval was cleared.
C23_NothingPolledOnceNoTaskIsActive ==
  [][ActiveTasks(processingTasks) = <<>> =>
       /\ upPolls' = upPolls
       /\ \A i \in 1..Len(processingTasks) :
            \A j \in Entries(processingTasks', processingTasks[i].taskId) :
              processingTasks'[j] = processingTasks[i]]_vars

\* C25: an entry that is completed or failed never changes its status again.
C25_TerminalStatusIsFinal ==
  [][\A i \in 1..Len(processingTasks) :
       ~Active(processingTasks[i].status) =>
         \A j \in Entries(processingTasks', processingTasks[i].taskId) :
           processingTasks'[j].status = processingTasks[i].status]_vars

\* C26: for each task onUploadSuccess is called at most once by the polling,
\* and only when a completed response for the task has arrived.
C26_CompletionCallbackAtMostOnce ==
  \A t \in TaskIds :
    /\ upNotified[t] <= 1
    /\ upNotified[t] > 0 => Includes(upResp[t], "completed")

(***************************************************************************)
(* Startup (SpecLive).                                                     *)
(***************************************************************************)
\* C22: every page load of the application leaves the loading state, whatever
\* the Session Store and the backend answer, and when loading becomes false
\* the user is set exactly when the Session Store holds a session, with that
\* session's user.
C22_LoadingEndsWithUserOfStore ==
  /\ (loading /\ loc.origin = "self") ~> (~loading \/ loc.origin # "self")
  /\ [][(loading /\ ~loading') => user' = OnAuthStateChangeUser(session')]_vars

(***************************************************************************)
(* The user and the Session Store (Spec).                                  *)
(***************************************************************************)
\* C24: whenever no auth operation is under way, the user is set exactly
\* when the Session Store holds a session, and then carries the id and the
\* email of the session's user.
C24_UserIsProjectionOfSession ==
  (AllIdle /\ loc.origin = "self") => user = OnAuthStateChangeUser(session)

C28_RedirectsStayOnOwnOrigin ==
  (gLast.has /\ gLast.resp.kind = "redirect") => gLast.resp.url.origin = "self"

(***************************************************************************)
(* login() and register() as a whole (SpecForm).                           *)
(***************************************************************************)
\* C29: a login(), or a register() for which the backend returned tokens,
\* that resolves without an error has installed the session, set the user,
\* written both cookies and issued a navigation; otherwise it rejects.
C29_LoginIsAllOrError ==
  [][(top["form"] \in {"login", "register"} /\ pc["form"] # "done"
        /\ pc'["form"] = "done" /\ ret'["form"] = Resolved)
      => /\ session'.has /\ user' # NoUser
         /\ cookies'.access.set /\ cookies'.refresh.set
         /\ (href'.has \/ navTimer'.has)]_vars

(***************************************************************************)
(* The chat's trial limit (SpecChat).                                      *)
(***************************************************************************)
\* C30: a submit whose usage check returns queries_used >= 20 sends no
\* request, appends the assistant's limit message and nothing else, and
\* ends; a query or clear-context request of a submit is sent only after
\* its usage check reported fewer than 20 queries or failed.
C30_TrialLimitGate ==
  [][/\ \A s \in 1..Len(chSubmits) :
          (/\ chSubmits[s].pc = "usage" /\ chSubmits'[s].pc # "usage"
           /\ chSubmits'[s].usage.state = "ok"
           /\ chSubmits'[s].usage.used >= TRIAL_LIMIT)
          => /\ chRequests' = chRequests
             /\ messages' = Append(messages, Message("assistant", LimitMessage, s))
             /\ chSubmits'[s].pc = "done"
             /\ isLoading' = isLoading
     /\ \A k \in 1..Len(chRequests') :
          (chRequests'[k].op \in {"query", "clearConversationContext"})
          => LET usage == chSubmits'[chRequests'[k].by].usage
             IN  \/ usage.state = "failed"
                 \/ usage.state = "ok" /\ usage.used < TRIAL_LIMIT
     /\ \A k \in 1..Len(messages') :
          LET s == messages'[k].by
          IN  (chSubmits'[s].usage.state = "ok" /\ chSubmits'[s].usage.used >= TRIAL_LIMIT)
              => messages'[k] = Message("assistant", LimitMessage, s)]_vars

\* The first submit found the 20 queries used: it sent the usage request
\* and nothing else, and the transcript holds the limit message only.
C30_Witness ==
  /\ Len(chSubmits) >= 1
  /\ chSubmits[1] = Submit("done", Text(8, 8, FALSE), UsageOk(TRIAL_LIMIT))
  /\ chRequests = <<Request("getUserUsage", 1)>>
  /\ messages = <<Message("assistant", LimitMessage, 1)>>
  /\ ~isLoading /\ input = Text(8, 8, FALSE)

C30_QueryAfterFailedCheck ==
  \E k \in 1..Len(chRequests) :
     /\ chRequests[k].op = "query"
     /\ chSubmits[chRequests[k].by].usage = UsageFailed

=============================================================================
